---- MODULE Spec2Model ----
(***************************************************************************)
(* Model of the inwire dependency-injection runtime: the Resolver (lazy    *)
(* resolution, caching, cycle detection, dependency tracking), the scope / *)
(* extend composition of containers, the Preloader and the Disposer.       *)
(***************************************************************************)
EXTENDS Integers, Sequences, FiniteSets, TLC

\* ------------------------------------------------------------------ bounds
\* onInit promises of lazy resolves that may be in flight at the same time
MaxLazy == 1

\* The program's concurrent asynchronous callers: each awaits at most one
\* preload() or dispose() at a time.
Tasks == {1, 2}

Keys == {"a", "b", "c", "d"}

\* ----------------------------------------------------------- sequence helpers
RECURSIVE Reverse(_)
Reverse(s) == IF s = <<>> THEN <<>> ELSE Append(Reverse(Tail(s)), Head(s))

SeqToSet(s) == {s[i] : i \in 1..Len(s)}

\* ------------------------------------------------ providers and registries
\* A provider: the registered key, the identity of the factory function, its
\* scope tag, and what the factory does when it runs: the keys it reads from
\* the container (in order), how it ends, and the hooks of the object it makes.
Provider(key, fid, tr, deps, ret, oi, od) ==
    [key |-> key, fid |-> fid, transient |-> tr, deps |-> deps, ret |-> ret,
     onInit |-> oi, onDestroy |-> od]

\* (variant) the transient marker is never recognised
isTransientNever(f) == FALSE

\* transient.ts 41-47: the factory carries the transient marker.
isTransient(f) == f.transient

HasFactory(facs, k) == \E i \in 1..Len(facs) : facs[i].key = k
GetFactory(facs, k) == facs[CHOOSE i \in 1..Len(facs) : facs[i].key = k]
FactoryKeys(facs) == [i \in 1..Len(facs) |-> facs[i].key]

\* Map.set on an insertion-ordered registry: an existing key keeps its place.
FactoriesSet(facs, f) ==
    IF HasFactory(facs, f.key)
    THEN [i \in 1..Len(facs) |-> IF facs[i].key = f.key THEN f ELSE facs[i]]
    ELSE Append(facs, f)

RECURSIVE MergeFactories(_, _)
MergeFactories(facs, extra) ==
    IF extra = <<>> THEN facs
    ELSE MergeFactories(FactoriesSet(facs, Head(extra)), Tail(extra))

hasOnInit(inst) == inst.onInit # "none"
hasOnDestroy(inst) == inst.onDestroy # "none"

\* ------------------------------------------------------------------- cache
\* The cache is a Map: a sequence of entries in insertion order.
CacheHas(c, k) == \E i \in 1..Len(c) : c[i].key = k
CacheGet(c, k) == c[CHOOSE i \in 1..Len(c) : c[i].key = k].inst
CacheKeys(c) == {c[i].key : i \in 1..Len(c)}
\* (variant) a new entry is put in front of the entries the cache holds
CacheSetFront(c, k, v) ==
    IF CacheHas(c, k)
    THEN [i \in 1..Len(c) |-> IF c[i].key = k THEN [key |-> k, inst |-> v] ELSE c[i]]
    ELSE <<[key |-> k, inst |-> v]>> \o c
\* Map.set: a new key is added behind the keys the cache holds
CacheSet(c, k, v) ==
    IF CacheHas(c, k)
    THEN [i \in 1..Len(c) |-> IF c[i].key = k THEN [key |-> k, inst |-> v] ELSE c[i]]
    ELSE Append(c, [key |-> k, inst |-> v])
\* (variant) the whole cache is cleared, whatever keys are named
CacheDeleteAll(c, ks) == <<>>
\* cache.delete(key) for each of the keys
CacheDelete(c, ks) == SelectSeq(c, LAMBDA e : e.key \notin ks)

\* --------------------------------------------------------------- scenarios
\* The programs explored: the providers of the root container, and the
\* scope()/extend() calls the program makes (in this order, at any time), each
\* with the container it is called on and the providers it is given. The
\* container made by the n-th call is resolver n + 1.
Sgl(key, fid, deps, oi, od) == Provider(key, fid, FALSE, deps, "ok", oi, od)
Trn(key, fid, deps, oi, od) == Provider(key, fid, TRUE, deps, "ok", oi, od)
Derive(op, src, extra) == [op |-> op, src |-> src, extra |-> extra]

Scenarios == {
    \* layered services with initialization hooks
    [name |-> "layers", uses |-> {"preload"}, resets |-> {{"b"}},
     base |-> << Sgl("a", "a0", <<>>, "async", "none"),
                 Sgl("b", "b0", <<"a">>, "asyncFail", "none"),
                 Sgl("c", "c0", <<"a">>, "sync", "none") >>,
     plan |-> << >>],
    \* services with teardown hooks
    [name |-> "teardown", uses |-> {"dispose"}, resets |-> {{"a"}, {"b"}},
     base |-> << Sgl("a", "a0", <<>>, "none", "fail"),
                 Sgl("b", "b0", <<"a">>, "none", "fail"),
                 Sgl("c", "c0", <<>>, "none", "ok"),
                 Sgl("d", "d0", <<>>, "none", "none") >>,
     plan |-> << >>],
    \* preload and dispose in one program
    [name |-> "lifecycle", uses |-> {"preload", "dispose"}, resets |-> {{}},
     base |-> << Sgl("a", "a0", <<>>, "asyncFail", "throw"),
                 Sgl("b", "b0", <<"a">>, "async", "ok") >>,
     plan |-> << >>],
    \* two callers that do not await each other
    [name |-> "overlap", uses |-> {"preload", "overlap"}, resets |-> {},
     base |-> << Sgl("a", "a0", <<>>, "sync", "none"),
                 Sgl("b", "b0", <<"a">>, "asyncFail", "none") >>,
     plan |-> << >>],
    \* transients, and a singleton that reads a transient twice
    [name |-> "transient", uses |-> {}, resets |-> {{}, {"a"}, {"c"}},
     base |-> << Trn("a", "a0", <<"b">>, "sync", "none"),
                 Trn("b", "b0", <<>>, "none", "none"),
                 Sgl("c", "c0", <<"a", "a">>, "none", "ok") >>,
     plan |-> << Derive("extend", 1, << Trn("c", "c1", <<"a", "a">>, "none", "none") >>) >>],
    \* a direct cycle, a self-cycle and a key that leads into a cycle
    [name |-> "cycle", uses |-> {"preload"}, resets |-> {},
     base |-> << Sgl("a", "a0", <<"b">>, "none", "none"),
                 Sgl("b", "b0", <<"a">>, "none", "none"),
                 Sgl("c", "c0", <<"c">>, "none", "none"),
                 Trn("d", "d0", <<"a">>, "none", "none") >>,
     plan |-> << >>],
    \* an indirect cycle
    [name |-> "indirect", uses |-> {}, resets |-> {},
     base |-> << Sgl("a", "a0", <<"b">>, "none", "none"),
                 Sgl("b", "b0", <<"c">>, "none", "none"),
                 Sgl("c", "c0", <<"a">>, "none", "none"),
                 Sgl("d", "d0", <<"b">>, "none", "none") >>,
     plan |-> << >>],
    \* nested scopes: the child overrides a and adds d, the grandchild
    \* overrides a again
    [name |-> "scopes", uses |-> {"dispose"}, resets |-> {{}, {"a"}},
     base |-> << Sgl("a", "a0", <<>>, "none", "ok"),
                 Sgl("b", "b0", <<"a">>, "none", "none") >>,
     plan |-> << Derive("scope", 1, << Sgl("a", "a1", <<>>, "none", "ok"),
                                       Sgl("d", "d1", <<"a", "b">>, "none", "none") >>),
                 Derive("scope", 2, << Sgl("a", "a2", <<>>, "none", "ok") >>) >>],
    \* an extension that overrides a key, closing a cycle through a cached key
    [name |-> "extend", uses |-> {}, resets |-> {{}, {"a"}},
     base |-> << Sgl("a", "a0", <<>>, "none", "ok"),
                 Sgl("b", "b0", <<"a">>, "sync", "ok") >>,
     plan |-> << Derive("extend", 1, << Sgl("a", "a1", <<"b">>, "none", "ok"),
                                        Sgl("d", "d1", <<"a">>, "none", "none") >>) >>],
    \* failing factories and a missing provider
    [name |-> "failing", uses |-> {"preload"}, resets |-> {{"c"}},
     base |-> << Sgl("a", "a0", <<>>, "syncThrow", "none"),
                 Sgl("b", "b0", <<"c", "d">>, "none", "none"),
                 Sgl("c", "c0", <<>>, "none", "ok"),
                 Provider("d", "d0", FALSE, <<"c">>, "throw", "none", "none") >>,
     plan |-> << >>],
    \* a container disposed while its preload() is still awaited
    [name |-> "interrupted", uses |-> {"preload", "dispose", "overlap"}, resets |-> {},
     base |-> << Sgl("a", "a0", <<>>, "async", "ok") >>,
     plan |-> << >>],
    \* preload on a scope: a provider that reads a key of the parent, and a
    \* provider that fails
    [name |-> "subscope", uses |-> {"preload"}, resets |-> {},
     base |-> << Sgl("a", "a0", <<>>, "async", "none") >>,
     plan |-> << Derive("scope", 1,
                        << Sgl("d", "d1", <<"a">>, "sync", "none"),
                           Provider("c", "c1", FALSE, <<"d">>, "throw", "none", "none") >>) >>],
    \* three layers, the hooks of the first two failing
    [name |-> "hooks", uses |-> {"preload"}, resets |-> {},
     base |-> << Sgl("a", "a0", <<>>, "asyncFail", "none"),
                 Sgl("b", "b0", <<"a">>, "syncThrow", "none"),
                 Sgl("c", "c0", <<"b">>, "async", "none") >>,
     plan |-> << >>],
    \* a factory that returns undefined and a factory that reads a key nobody
    \* registers, each below a healthy one
    [name |-> "broken", uses |-> {}, resets |-> {},
     base |-> << Sgl("a", "a0", <<"b">>, "none", "none"),
                 Provider("b", "b0", FALSE, <<>>, "undef", "none", "none"),
                 Sgl("c", "c0", <<"d">>, "none", "none") >>,
     plan |-> << >>],
    \* preload of a transient service that has an initialization hook
    [name |-> "ephemeral", uses |-> {"preload"}, resets |-> {},
     base |-> << Sgl("b", "b0", <<"a">>, "sync", "none"),
                 Trn("a", "a0", <<>>, "sync", "none") >>,
     plan |-> << >>],
    \* a diamond: a reads b and c, both read d
    [name |-> "diamond", uses |-> {}, resets |-> {{"d"}},
     base |-> << Sgl("a", "a0", <<"b", "c">>, "none", "none"),
                 Sgl("b", "b0", <<"d">>, "none", "none"),
                 Sgl("c", "c0", <<"d">>, "none", "none"),
                 Sgl("d", "d0", <<>>, "sync", "none") >>,
     plan |-> << >>],
    \* a factory that catches the failure of its read, in a cycle
    [name |-> "guarded", uses |-> {"preload"}, resets |-> {},
     base |-> << Provider("a", "a0", FALSE, <<"b">>, "catch", "none", "none"),
                 Sgl("b", "b0", <<"a">>, "sync", "none") >>,
     plan |-> << >>],
    \* a scope and an extension of the scope, each disposed on its own
    [name |-> "derived", uses |-> {"dispose"}, resets |-> {},
     base |-> << Sgl("a", "a0", <<>>, "none", "none") >>,
     plan |-> << Derive("scope", 1, << Sgl("d", "d1", <<"a">>, "none", "ok") >>),
                 Derive("extend", 2, << Sgl("c", "c2", <<"d">>, "none", "none") >>) >>],
    \* a fan: b and c read a, d reads both; the hooks of b and c are asynchronous
    [name |-> "fan", uses |-> {"preload"}, resets |-> {},
     base |-> << Sgl("a", "a0", <<>>, "none", "none"),
                 Sgl("b", "b0", <<"a">>, "async", "none"),
                 Sgl("c", "c0", <<"a">>, "asyncFail", "none"),
                 Sgl("d", "d0", <<"b", "c">>, "sync", "none") >>,
     plan |-> << >>]
}

RECURSIVE MaxOf(_)
MaxOf(S) == IF S = {} THEN 0
            ELSE LET x == CHOOSE y \in S : TRUE
                     rest == MaxOf(S \ {x})
                 IN  IF x > rest THEN x ELSE rest

\* The root and one resolver per scope()/extend() call of the longest program.
Resolvers == 1..(1 + MaxOf({Len(sc.plan) : sc \in Scenarios}))
\* The depth of nested factory calls the call stack has room for; no
\* resolution of the programs below nests that deep.
MaxDepth == 6

\* ------------------------------------------------------------------- state
VARIABLES
    nres,         \* number of resolvers constructed so far (1 = the root)
    factories,    \* Resolver.factories: the registry, in registration order
    parent,       \* Resolver.parent (0 = none)
    cache,        \* Resolver.cache
    initCalled,   \* Resolver.initCalled
    depGraph,     \* DependencyTracker.depGraph of the resolver
    warnings,     \* Resolver.warnings
    resolving,    \* CycleDetector.resolving of the resolver
    deferOnInit,  \* Resolver.deferOnInit
    pending,      \* onInit promises that have been started and not settled
    tasks,        \* the preload() or dispose() call each caller is awaiting
    plan,         \* the scope()/extend() calls the program still makes, in order
    prog,         \* the program: the container methods it calls and the keys it resets
    last,         \* the last container call: its inputs, outcome and events
    served,       \* history: per resolver and singleton key, the value its first
                  \* successful resolve since the last reset/dispose returned
    inits         \* history: per resolver and key, how often onInit has been
                  \* called since the last reset/dispose of the key (2 = more)

vars == <<nres, factories, parent, cache, initCalled, depGraph, warnings,
          resolving, deferOnInit, pending, tasks, plan, prog, last, served, inits>>

\* ------------------------------------------------------------------ errors
Ok(v) == [kind |-> "ok", val |-> v]
ProviderNotFoundError(key, chain, registered) ==
    [kind |-> "NotFound", key |-> key, chain |-> chain, registered |-> registered]
CircularDependencyError(key, chain) ==
    [kind |-> "Circular", key |-> key, chain |-> chain,
     cycle |-> Append(chain, key)]
UndefinedReturnError(key, chain) ==
    [kind |-> "UndefinedReturn", key |-> key, chain |-> chain]
FactoryError(key, chain, cause) ==
    [kind |-> "FactoryError", key |-> key, chain |-> chain, cause |-> cause]
\* The call stack is exhausted: the recursion did not end by itself.
StackOverflow == [kind |-> "StackOverflow"]

ScopeMismatchWarning(singleton, transient) ==
    [type |-> "scope_mismatch", key |-> singleton, other |-> transient]
AsyncInitErrorWarning(key, inst) ==
    [type |-> "async_init_error", key |-> key, other |-> inst]

\* ---------------------------------------------------------------- resolver
RECURSIVE getAllRegisteredKeys(_)
getAllRegisteredKeys(r) ==
    SeqToSet(FactoryKeys(factories[r])) \cup
        (IF parent[r] # 0 THEN getAllRegisteredKeys(parent[r]) ELSE {})

\* Resolver.getFactory: this resolver's factory or the nearest ancestor's.
RECURSIVE HasFactoryInChain(_, _)
HasFactoryInChain(r, k) ==
    HasFactory(factories[r], k) \/ (parent[r] # 0 /\ HasFactoryInChain(parent[r], k))
RECURSIVE getFactory(_, _)
getFactory(r, k) ==
    IF HasFactory(factories[r], k) THEN GetFactory(factories[r], k)
    ELSE getFactory(parent[r], k)

\* The part of the state a resolution reads and writes, threaded through the
\* recursion of resolve.
Mem == [cache |-> cache, initCalled |-> initCalled, depGraph |-> depGraph,
        warnings |-> warnings, resolving |-> resolving, defer |-> deferOnInit,
        pending |-> pending, log |-> <<>>]

\* The objects the program still holds somewhere. A factory returns a new
\* object on every run: it is named by the smallest number that none of the
\* objects of that factory still held, or made earlier in this call, carries.
LogInsts(log) == {log[i].inst : i \in 1..Len(log)}
ErrInsts(errors) == {errors[i].inst : i \in 1..Len(errors)}
TaskInsts(tk) ==
    IF tk.op = "dispose"
    THEN {tk.rest[i].inst : i \in 1..Len(tk.rest)} \cup {tk.snap[i].inst : i \in 1..Len(tk.snap)}
         \cup LogInsts(tk.torn) \cup ErrInsts(tk.errors)
    ELSE IF tk.op = "preload"
    THEN ErrInsts(tk.errors) \cup {x.err.inst : x \in tk.rejected}
    ELSE {}
Held(m) ==
    UNION {{m.cache[r][i].inst : i \in 1..Len(m.cache[r])} : r \in Resolvers}
    \cup {p.inst : p \in m.pending}
    \cup UNION {TaskInsts(tasks[t]) : t \in Tasks}
    \cup LogInsts(m.log)
    \cup UNION {{served[r][k] : k \in DOMAIN served[r]} : r \in Resolvers}
NewObject(m, f) ==
    LET used == {i.n : i \in {j \in Held(m) : j.fid = f.fid}}
    IN  [fid |-> f.fid,
         n |-> CHOOSE n \in 1..(Cardinality(used) + 1) :
                  n \notin used /\ \A k \in 1..(n - 1) : k \in used,
         onInit |-> f.onInit, onDestroy |-> f.onDestroy]

\* DependencyTracker.recordDeps
recordDeps(g, key, deps) ==
    [k \in DOMAIN g \cup {key} |-> IF k = key THEN deps ELSE g[k]]

\* resolver.ts 95-102: one warning per access of a transient dependency.
RECURSIVE MismatchWarnings(_, _, _)
MismatchWarnings(r, key, deps) ==
    IF deps = <<>> THEN <<>>
    ELSE (IF HasFactoryInChain(r, Head(deps)) /\ isTransient(getFactory(r, Head(deps)))
          THEN <<ScopeMismatchWarning(key, Head(deps))>> ELSE <<>>)
         \o MismatchWarnings(r, key, Tail(deps))

\* (variant) the resolve waits for the hook and fails when the hook fails
CallInitAwaited(m, r, f, inst, chain) ==
    IF inst.onInit \in {"syncThrow", "asyncFail"}
    THEN [m |-> m, out |-> FactoryError(f.key, chain, [hook |-> "onInit", inst |-> inst])]
    ELSE [m |-> m, out |-> Ok(inst)]

\* resolver.ts 110-116: the hook has been called; a hook that throws ends
\* the resolve, a promise is left to settle on its own.
CallInit(m, r, f, inst, chain) ==
    IF inst.onInit = "syncThrow"
    THEN [m |-> m, out |-> FactoryError(f.key, chain, [hook |-> "onInit", inst |-> inst])]
    ELSE IF inst.onInit \in {"async", "asyncFail"}
    THEN [m |-> [m EXCEPT !.pending = @ \cup {[r |-> r, key |-> f.key,
                                               inst |-> inst, by |-> 0]}],
          out |-> Ok(inst)]
    ELSE [m |-> m, out |-> Ok(inst)]

\* resolver.ts 108-118: the hook is called unless it is deferred, was called
\* before or does not exist.
InitHook(m, r, f, inst, chain) ==
    IF ~m.defer[r] /\ f.key \notin m.initCalled[r] /\ hasOnInit(inst)
    THEN CallInit([m EXCEPT !.initCalled[r] = @ \cup {f.key},
                            !.log = Append(@, [e |-> "init", r |-> r, key |-> f.key,
                                               inst |-> inst, chain |-> chain])],
                  r, f, inst, chain)
    ELSE [m |-> m, out |-> Ok(inst)]

\* (variant) a scope also stores the singletons it makes in its parent's cache
AfterFactoryShared(m, r, f, inst, chain) ==
    InitHook(IF ~isTransient(f)
             THEN [m EXCEPT !.depGraph[r] = recordDeps(@, f.key, f.deps),
                            !.warnings[r] = @ \o MismatchWarnings(r, f.key, f.deps),
                            !.cache = [q \in Resolvers |->
                                          IF q = r \/ q = parent[r]
                                          THEN CacheSet(m.cache[q], f.key, inst)
                                          ELSE m.cache[q]]]
             ELSE [m EXCEPT !.depGraph[r] = recordDeps(@, f.key, f.deps)],
             r, f, inst, chain)

\* resolver.ts 93-118: what resolve does once the factory has returned inst.
AfterFactory(m, r, f, inst, chain) ==
    InitHook(IF ~isTransient(f)
             THEN [m EXCEPT !.depGraph[r] = recordDeps(@, f.key, f.deps),
                            !.warnings[r] = @ \o MismatchWarnings(r, f.key, f.deps),
                            !.cache[r] = CacheSet(@, f.key, inst)]
             ELSE [m EXCEPT !.depGraph[r] = recordDeps(@, f.key, f.deps)],
             r, f, inst, chain)

RECURSIVE resolve(_, _, _, _, _)
RECURSIVE RunDeps(_, _, _, _, _, _)
RECURSIVE Delegate(_, _, _, _, _)

\* dependency-tracker.ts 22-27, after a read: a failure of the nested resolve
\* ends the factory unless the factory catches it (caught), otherwise the
\* factory goes on to its next read.
NextDep(first, r, deps, chain, fuel, caught) ==
    IF first.out.kind # "ok" /\ ~caught THEN first
    ELSE RunDeps(first.m, r, deps, chain, fuel, caught)

\* The factory reads its dependencies through the tracking proxy, one after
\* the other.
RunDeps(m, r, deps, chain, fuel, caught) ==
    IF deps = <<>> THEN [m |-> m, out |-> Ok(<<>>)]
    ELSE NextDep(resolve(m, r, Head(deps), chain, fuel), r, Tail(deps), chain, fuel,
                 caught)

\* resolver.ts 87-118: the factory has read its dependencies (d) and ends.
FactoryReturns(d, r, f, inst, chain) ==
    IF d.out.kind # "ok" THEN d
    ELSE IF f.ret = "throw"
    THEN [m |-> d.m, out |-> FactoryError(f.key, chain, [thrownBy |-> f.fid])]
    ELSE IF f.ret = "undef"
    THEN [m |-> d.m, out |-> UndefinedReturnError(f.key, chain)]
    ELSE AfterFactory(d.m, r, f, inst, chain)

\* resolver.ts 87: the factory is called; inst is the object it will return.
CallFactory(m, r, f, inst, chain, fuel) ==
    FactoryReturns(RunDeps([m EXCEPT !.log = Append(@, [e |-> "run", r |-> r,
                                     key |-> f.key, inst |-> inst, chain |-> chain])],
                           r, f.deps, chain, fuel, f.ret = "catch"),
                   r, f, inst, chain)

\* resolver.ts 79-131: the try block of resolve, run with key entered.
RunFactory(m, r, f, chain, fuel) == CallFactory(m, r, f, NewObject(m, f), chain, fuel)

\* (variant) the scope test of the cache lookup inverted
CacheHitInverted(m, r, key) ==
    /\ HasFactory(factories[r], key)
    /\ isTransient(GetFactory(factories[r], key))
    /\ CacheHas(m.cache[r], key)

\* resolver.ts 59: the factory is a singleton's and its result is cached.
CacheHit(m, r, key) ==
    /\ HasFactory(factories[r], key)
    /\ ~isTransient(GetFactory(factories[r], key))
    /\ CacheHas(m.cache[r], key)

\* (variant) a detector that never reports a key as being resolved
isResolvingNever(m, r, key) == FALSE

\* CycleDetector.isResolving
isResolving(m, r, key) == key \in m.resolving[r]

\* The value a resolve hands back, noted in the call's events.
Returned(m, r, key, inst, chain) ==
    [m |-> [m EXCEPT !.log = Append(@, [e |-> "ret", r |-> r, key |-> key,
                                        inst |-> inst, chain |-> chain])],
     out |-> Ok(inst)]

\* (variant) a key without a local factory goes to the root container
DelegateToRoot(m, r, key, chain, fuel) == resolve(m, 1, key, chain, fuel)

\* resolver.ts 64-65: a key without a local factory goes to the parent, with
\* the chain as it is.
Delegate(m, r, key, chain, fuel) == resolve(m, parent[r], key, chain, fuel)

\* (variant) the key is left only when the resolution succeeds
LeaveOnSuccess(body, r, key, chain) ==
    IF body.out.kind = "ok"
    THEN Returned([body.m EXCEPT !.resolving[r] = @ \ {key}], r, key, body.out.val, chain)
    ELSE [m |-> body.m, out |-> body.out]

\* (variant) the key stays in the resolving set when the resolution is over
LeaveKeepsKey(body, r, key, chain) ==
    IF body.out.kind = "ok"
    THEN Returned(body.m, r, key, body.out.val, chain)
    ELSE [m |-> body.m, out |-> body.out]

\* (variant) every failure is wrapped again under the key of the resolution
\* it passes through
LeaveWrapping(body, r, key, chain) ==
    IF body.out.kind = "ok"
    THEN Returned([body.m EXCEPT !.resolving[r] = @ \ {key}], r, key, body.out.val, chain)
    ELSE [m |-> [body.m EXCEPT !.resolving[r] = @ \ {key}],
          out |-> FactoryError(key, chain, body.out)]

\* resolver.ts 118-131: the try block is over (body): the key is left, and
\* the instance is returned or the failure goes on to the caller.
Leave(body, r, key, chain) ==
    IF body.out.kind = "ok"
    THEN Returned([body.m EXCEPT !.resolving[r] = @ \ {key}], r, key, body.out.val, chain)
    ELSE [m |-> [body.m EXCEPT !.resolving[r] = @ \ {key}], out |-> body.out]

\* Resolver.resolve
resolve(m, r, key, chain, fuel) ==
    IF CacheHit(m, r, key)
    THEN Returned(m, r, key, CacheGet(m.cache[r], key), chain)
    ELSE IF ~HasFactory(factories[r], key)
    THEN IF parent[r] # 0
         THEN Delegate(m, r, key, chain, fuel)
         ELSE [m |-> m, out |-> ProviderNotFoundError(key, chain, getAllRegisteredKeys(r))]
    ELSE IF isResolving(m, r, key)
    THEN [m |-> m, out |-> CircularDependencyError(key, chain)]
    ELSE IF fuel = 0
    THEN [m |-> m, out |-> StackOverflow]
    ELSE Leave(RunFactory([m EXCEPT !.resolving[r] = @ \cup {key}], r,
                          GetFactory(factories[r], key), Append(chain, key), fuel - 1),
               r, key, Append(chain, key))

Idle == [op |-> "idle"]

\* ------------------------------------------------------------------- Init
\* createContainer: the root resolver over the scenario's providers; the other
\* resolvers are not constructed yet.
Init ==
    \E sc \in Scenarios :
        /\ nres = 1
        /\ factories = [r \in Resolvers |-> IF r = 1 THEN sc.base ELSE <<>>]
        /\ plan = sc.plan
        /\ prog = [name |-> sc.name, uses |-> sc.uses, resets |-> sc.resets]
        /\ parent = [r \in Resolvers |-> 0]
        /\ cache = [r \in Resolvers |-> <<>>]
        /\ initCalled = [r \in Resolvers |-> {}]
        /\ depGraph = [r \in Resolvers |-> <<>>]
        /\ warnings = [r \in Resolvers |-> <<>>]
        /\ resolving = [r \in Resolvers |-> {}]
        /\ deferOnInit = [r \in Resolvers |-> FALSE]
        /\ pending = {}
        /\ tasks = [t \in Tasks |-> Idle]
        /\ last = [op |-> "create", r |-> 1, arg |-> <<>>, out |-> Ok(1), log |-> <<>>]
        /\ served = [r \in Resolvers |-> <<>>]
        /\ inits = [r \in Resolvers |-> <<>>]

Live == 1..nres

\* The histories after the events of a call.
RECURSIVE Observe(_, _)
Observe(h, log) ==
    IF log = <<>> THEN h
    ELSE LET ev == Head(log)
             sv == h.served[ev.r]
             ic == h.inits[ev.r]
             h1 == IF ev.e = "ret" /\ ev.key \notin DOMAIN sv
                      /\ ~isTransient(GetFactory(factories[ev.r], ev.key))
                   THEN [h EXCEPT !.served[ev.r] =
                            [k \in DOMAIN sv \cup {ev.key} |->
                                IF k = ev.key THEN ev.inst ELSE sv[k]]]
                   ELSE IF ev.e = "init"
                   THEN [h EXCEPT !.inits[ev.r] =
                            [k \in DOMAIN ic \cup {ev.key} |->
                                IF k # ev.key THEN ic[k]
                                ELSE IF k \in DOMAIN ic THEN 2 ELSE 1]]
                   ELSE h
         IN  Observe(h1, Tail(log))

Forget(h, r, keys) == [k \in DOMAIN h[r] \ keys |-> h[r][k]]

\* Writes back what a resolution left behind.
Commit(m) ==
    /\ LET h == Observe([served |-> served, inits |-> inits], m.log)
       IN  served' = h.served /\ inits' = h.inits
    /\ Cardinality({p \in m.pending : p.by = 0}) <= MaxLazy
    /\ cache' = m.cache
    /\ initCalled' = m.initCalled
    /\ depGraph' = m.depGraph
    /\ warnings' = m.warnings
    /\ resolving' = m.resolving
    /\ deferOnInit' = m.defer
    /\ pending' = m.pending

\* ---------------------------------------------------------------- actions
\* container.key: the proxy's get trap calls resolver.resolve(key).
Resolved(r, key, res) ==
    /\ Commit(res.m)
    /\ last' = [op |-> "resolve", r |-> r, arg |-> key, out |-> res.out,
                log |-> res.m.log]
    /\ UNCHANGED <<nres, factories, parent, tasks, plan, prog>>

Resolve(r, key) ==
    /\ r \in Live
    /\ Resolved(r, key, resolve(Mem, r, key, <<>>, MaxDepth))

\* Resolver.clearWarningsForKeys
clearWarningsForKeys(ws, keys) ==
    SelectSeq(ws, LAMBDA w :
        IF w.type = "async_init_error" THEN w.key \notin keys
        ELSE w.key \notin keys /\ w.other \notin keys)

\* DependencyTracker.clearDepGraph
clearDepGraph(g, keys) == [k \in DOMAIN g \ keys |-> g[k]]

\* container.reset(...keys)
Reset(r, keys) ==
    /\ r \in Live
    /\ keys \in prog.resets
    /\ IF keys = {}
       THEN /\ cache' = [cache EXCEPT ![r] = <<>>]
            /\ initCalled' = [initCalled EXCEPT ![r] = {}]
            /\ depGraph' = [depGraph EXCEPT ![r] = <<>>]
            /\ warnings' = [warnings EXCEPT ![r] = <<>>]
       ELSE /\ cache' = [cache EXCEPT ![r] = CacheDelete(@, keys)]
            /\ initCalled' = [initCalled EXCEPT ![r] = @ \ keys]
            /\ depGraph' = [depGraph EXCEPT ![r] = clearDepGraph(@, keys)]
            /\ warnings' = [warnings EXCEPT ![r] = clearWarningsForKeys(@, keys)]
    /\ last' = [op |-> "reset", r |-> r, arg |-> keys, out |-> Ok(0), log |-> <<>>]
    /\ LET gone == IF keys = {} THEN Keys ELSE keys
       IN  /\ served' = [served EXCEPT ![r] = Forget(served, r, gone)]
           /\ inits' = [inits EXCEPT ![r] = Forget(inits, r, gone)]
    /\ UNCHANGED <<nres, factories, parent, resolving, deferOnInit, pending,
                   tasks, plan, prog>>

\* (variant) the child starts with the entries its parent has cached
ScopeSharingCache(src, extra) ==
    /\ plan # <<>> /\ Head(plan) = Derive("scope", src, extra)
    /\ plan' = Tail(plan)
    /\ nres' = nres + 1
    /\ factories' = [factories EXCEPT ![nres + 1] = extra]
    /\ parent' = [parent EXCEPT ![nres + 1] = src]
    /\ cache' = [cache EXCEPT ![nres + 1] = cache[src]]
    /\ last' = [op |-> "scope", r |-> src, arg |-> extra, out |-> Ok(nres + 1),
                log |-> <<>>]
    /\ UNCHANGED <<initCalled, depGraph, warnings, resolving, deferOnInit,
                   pending, tasks, prog, served, inits>>

\* container.scope(extra)
Scope(src, extra) ==
    /\ plan # <<>> /\ Head(plan) = Derive("scope", src, extra)
    /\ plan' = Tail(plan)
    /\ nres' = nres + 1
    /\ factories' = [factories EXCEPT ![nres + 1] = extra]
    /\ parent' = [parent EXCEPT ![nres + 1] = src]
    /\ last' = [op |-> "scope", r |-> src, arg |-> extra, out |-> Ok(nres + 1),
                log |-> <<>>]
    /\ UNCHANGED <<cache, initCalled, depGraph, warnings, resolving, deferOnInit,
                   pending, tasks, prog, served, inits>>

\* (variant) the providers are merged into the source's own registry
ExtendInPlace(src, extra) ==
    /\ plan # <<>> /\ Head(plan) = Derive("extend", src, extra)
    /\ plan' = Tail(plan)
    /\ nres' = nres + 1
    /\ factories' = [factories EXCEPT ![src] = MergeFactories(factories[src], extra),
                                      ![nres + 1] = MergeFactories(factories[src], extra)]
    /\ cache' = [cache EXCEPT ![nres + 1] = cache[src]]
    /\ initCalled' = [initCalled EXCEPT ![nres + 1] = initCalled[src]]
    /\ last' = [op |-> "extend", r |-> src, arg |-> extra, out |-> Ok(nres + 1),
                log |-> <<>>]
    /\ UNCHANGED <<parent, depGraph, warnings, resolving, deferOnInit, pending,
                   tasks, prog, served, inits>>

\* (variant) the new resolver starts with an empty cache
ExtendWithoutCache(src, extra) ==
    /\ plan # <<>> /\ Head(plan) = Derive("extend", src, extra)
    /\ plan' = Tail(plan)
    /\ nres' = nres + 1
    /\ factories' = [factories EXCEPT ![nres + 1] = MergeFactories(factories[src], extra)]
    /\ initCalled' = [initCalled EXCEPT ![nres + 1] = initCalled[src]]
    /\ last' = [op |-> "extend", r |-> src, arg |-> extra, out |-> Ok(nres + 1),
                log |-> <<>>]
    /\ UNCHANGED <<cache, parent, depGraph, warnings, resolving, deferOnInit, pending,
                   tasks, prog, served, inits>>

\* container.extend(extra)
Extend(src, extra) ==
    /\ plan # <<>> /\ Head(plan) = Derive("extend", src, extra)
    /\ plan' = Tail(plan)
    /\ nres' = nres + 1
    /\ factories' = [factories EXCEPT ![nres + 1] = MergeFactories(factories[src], extra)]
    /\ cache' = [cache EXCEPT ![nres + 1] = cache[src]]
    /\ initCalled' = [initCalled EXCEPT ![nres + 1] = initCalled[src]]
    /\ last' = [op |-> "extend", r |-> src, arg |-> extra, out |-> Ok(nres + 1),
                log |-> <<>>]
    /\ UNCHANGED <<parent, depGraph, warnings, resolving, deferOnInit, pending,
                   tasks, prog, served, inits>>

\* The promise of an onInit started by a lazy resolve settles; resolver.ts
\* 112-114 records a rejection as a warning.
LazyInitSettles(p) ==
    /\ p \in pending
    /\ p.by = 0
    /\ pending' = pending \ {p}
    /\ warnings' = IF p.inst.onInit = "asyncFail"
                   THEN [warnings EXCEPT ![p.r] = Append(@, AsyncInitErrorWarning(p.key, p.inst))]
                   ELSE warnings
    /\ last' = [op |-> "initSettled", r |-> p.r, arg |-> p.key, out |-> Ok(0),
                log |-> <<>>]
    /\ UNCHANGED <<nres, factories, parent, cache, initCalled, depGraph, resolving,
                   deferOnInit, tasks, plan, prog, served, inits>>

\* ---------------------------------------------------------------- disposer
InitError(inst) == [hook |-> "onInit", inst |-> inst]
DestroyError(inst) == [hook |-> "onDestroy", inst |-> inst]

\* (variant) only the first failure is reported
SettleFirstOnly(errors) ==
    IF Len(errors) = 0 THEN Ok(0)
    ELSE [kind |-> "error", val |-> errors[1]]

\* How a call that collected errors ends (disposer.ts 53-56, preloader.ts 102-108).
Settle(errors) ==
    IF Len(errors) = 0 THEN Ok(0)
    ELSE IF Len(errors) = 1 THEN [kind |-> "error", val |-> errors[1]]
    ELSE [kind |-> "AggregateError", errors |-> errors]

\* disposer.ts 38-46: the loop over the entries up to its next await. An
\* entry without onDestroy is skipped, a hook that throws is caught, and the
\* loop stops at the first hook it has to await (the head of rest).
RECURSIVE DisposeLoop(_, _, _, _)
DisposeLoop(r, rest, errors, torn) ==
    IF rest = <<>> THEN [rest |-> <<>>, errors |-> errors, torn |-> torn]
    ELSE LET inst == Head(rest).inst
             called == Append(torn, [e |-> "destroy", r |-> r, key |-> Head(rest).key,
                                     inst |-> inst, chain |-> <<>>])
         IN  IF ~hasOnDestroy(inst) THEN DisposeLoop(r, Tail(rest), errors, torn)
             ELSE IF inst.onDestroy = "throw"
             THEN DisposeLoop(r, Tail(rest), Append(errors, DestroyError(inst)), called)
             ELSE [rest |-> rest, errors |-> errors, torn |-> called]

\* disposer.ts 48-56: the loop is over.
DisposeFinish(t, r, snap, errors, torn) ==
    /\ cache' = [cache EXCEPT ![r] = <<>>]
    /\ initCalled' = [initCalled EXCEPT ![r] = {}]
    /\ depGraph' = [depGraph EXCEPT ![r] = <<>>]
    /\ warnings' = [warnings EXCEPT ![r] = <<>>]
    /\ tasks' = [tasks EXCEPT ![t] = Idle]
    /\ served' = [served EXCEPT ![r] = <<>>]
    /\ inits' = [inits EXCEPT ![r] = <<>>]
    /\ last' = [op |-> "dispose", r |-> r, arg |-> snap, out |-> Settle(errors),
                log |-> torn]

\* A call is awaited by the first caller that is free; a program that does
\* not overlap its asynchronous calls has one caller.
Free(t) ==
    /\ tasks[t] = Idle
    /\ \A u \in Tasks : u < t => tasks[u] # Idle
    /\ t = 1 \/ "overlap" \in prog.uses

\* (variant) the entries in the order of the cache
DisposeEntriesInOrder(c) == c

\* disposer.ts 34-35: the entries to tear down, last cached first.
DisposeEntries(c) == Reverse(c)

\* container.dispose(), up to its first await
DisposeStart(t, r) ==
    /\ r \in Live
    /\ "dispose" \in prog.uses
    /\ Free(t)
    /\ LET l == DisposeLoop(r, DisposeEntries(cache[r]), <<>>, <<>>)
       IN  IF l.rest = <<>>
           THEN DisposeFinish(t, r, cache[r], l.errors, l.torn)
           ELSE /\ tasks' = [tasks EXCEPT ![t] =
                        [op |-> "dispose", r |-> r, rest |-> l.rest, errors |-> l.errors,
                         torn |-> l.torn, snap |-> cache[r]]]
                /\ last' = [op |-> "disposeStart", r |-> r, arg |-> cache[r],
                            out |-> Ok(0), log |-> l.torn]
                /\ UNCHANGED <<cache, initCalled, depGraph, warnings, served, inits>>
    /\ UNCHANGED <<nres, factories, parent, resolving, deferOnInit, pending, plan, prog>>

\* The awaited onDestroy settles and dispose() runs on to its next await.
DisposeStep(t) ==
    /\ tasks[t].op = "dispose"
    /\ LET tk == tasks[t]
           inst == Head(tk.rest).inst
           errs == IF inst.onDestroy = "fail" THEN Append(tk.errors, DestroyError(inst))
                   ELSE tk.errors
           l == DisposeLoop(tk.r, Tail(tk.rest), errs, tk.torn)
       IN  IF l.rest = <<>>
           THEN DisposeFinish(t, tk.r, tk.snap, l.errors, l.torn)
           ELSE /\ tasks' = [tasks EXCEPT ![t] =
                        [tk EXCEPT !.rest = l.rest, !.errors = l.errors, !.torn = l.torn]]
                /\ last' = [op |-> "disposeStep", r |-> tk.r, arg |-> tk.snap,
                            out |-> Ok(0), log |-> l.torn]
                /\ UNCHANGED <<cache, initCalled, depGraph, warnings, served, inits>>
    /\ UNCHANGED <<nres, factories, parent, resolving, deferOnInit, pending, plan, prog>>

\* --------------------------------------------------------------- preloader
DepsOf(g, k) == IF k \in DOMAIN g THEN g[k] ELSE <<>>
Count(seq, S) == Cardinality({i \in 1..Len(seq) : seq[i] \in S})
Flatten(levels) ==
    UNION {SeqToSet(levels[i]) : i \in 1..Len(levels)}

\* preloader.ts 30-41: one pass of the loop for each queue; inDeg counts the
\* dependencies of a key not yet placed, once per occurrence in its list.
RECURSIVE KahnNext(_, _, _, _, _)
KahnNext(g, keys, queue, inDeg, next) ==
    IF queue = <<>> THEN [inDeg |-> inDeg, next |-> next]
    ELSE LET key == Head(queue)
             \* dependents.get(key): keys whose list names key, one per occurrence
             dependents == SelectSeq(keys, LAMBDA k : key \in SeqToSet(DepsOf(g, k)))
             occ(k) == Count(DepsOf(g, k), {key})
             inDeg1 == [k \in DOMAIN inDeg |->
                           IF k \in SeqToSet(dependents) THEN inDeg[k] - occ(k)
                           ELSE inDeg[k]]
             ready == SelectSeq(dependents, LAMBDA k : inDeg1[k] = 0)
         IN  KahnNext(g, keys, Tail(queue), inDeg1, next \o ready)

RECURSIVE KahnLevels(_, _, _, _, _)
KahnLevels(g, keys, queue, inDeg, levels) ==
    IF queue = <<>> THEN levels
    ELSE LET step == KahnNext(g, keys, queue, inDeg, <<>>)
         IN  KahnLevels(g, keys, step.next, step.inDeg, Append(levels, queue))

\* (variant) the in-degree counts each dependency once, however often the
\* list names it
topologicalLevelsDistinct(g, keys) ==
    LET inDegree == [k \in SeqToSet(keys) |->
                        Cardinality(SeqToSet(DepsOf(g, k)) \cap SeqToSet(keys))]
        levels == KahnLevels(g, keys, SelectSeq(keys, LAMBDA k : inDegree[k] = 0),
                             inDegree, <<>>)
    IN  IF Cardinality(Flatten(levels)) < Cardinality(SeqToSet(keys))
        THEN [kind |-> "IncompleteTopologicalSort",
              remaining |-> SeqToSet(keys) \ Flatten(levels)]
        ELSE [kind |-> "ok", val |-> levels]

\* preloader.ts 7-53; keys is the ordered key set.
topologicalLevels(g, keys) ==
    LET inDegree == [k \in SeqToSet(keys) |-> Count(DepsOf(g, k), SeqToSet(keys))]
        levels == KahnLevels(g, keys, SelectSeq(keys, LAMBDA k : inDegree[k] = 0),
                             inDegree, <<>>)
    IN  IF Cardinality(Flatten(levels)) < Cardinality(SeqToSet(keys))
        THEN [kind |-> "IncompleteTopologicalSort",
              remaining |-> SeqToSet(keys) \ Flatten(levels)]
        ELSE [kind |-> "ok", val |-> levels]

\* preloader.ts 83-92: the keys reachable through the dependency graph, in
\* the order in which they are first met.
RECURSIVE collectDeps(_, _, _)
RECURSIVE collectAll(_, _, _)
collectDeps(g, key, allKeys) ==
    IF key \in SeqToSet(allKeys) THEN allKeys
    ELSE collectAll(g, DepsOf(g, key), Append(allKeys, key))
collectAll(g, keys, allKeys) ==
    IF keys = <<>> THEN allKeys
    ELSE collectAll(g, Tail(keys), collectDeps(g, Head(keys), allKeys))

\* preloader.ts 68-70: the requested keys are resolved one after the other.
RECURSIVE resolveAll(_, _, _)
NextKey(first, r, keys) ==
    IF first.out.kind # "ok" THEN first
    ELSE resolveAll(first.m, r, keys)
resolveAll(m, r, keys) ==
    IF keys = <<>> THEN [m |-> m, out |-> Ok(0)]
    ELSE NextKey(resolve(m, r, Head(keys), <<>>, MaxDepth), r, Tail(keys))

\* Resolver.callOnInit up to its await: the hook is called and its result
\* awaited; initCalled is updated when the awaited result has arrived.
callOnInit(m, t, r, key) ==
    IF key \in m.initCalled[r] THEN [m |-> m, status |-> "done"]
    ELSE IF ~CacheHas(m.cache[r], key) THEN [m |-> m, status |-> "done"]
    ELSE LET inst == CacheGet(m.cache[r], key)
             called == [m EXCEPT !.log = Append(@, [e |-> "init", r |-> r, key |-> key,
                                                    inst |-> inst, chain |-> <<>>])]
         IN  IF ~hasOnInit(inst)
             THEN [m |-> [m EXCEPT !.initCalled[r] = @ \cup {key}], status |-> "done"]
             ELSE IF inst.onInit = "syncThrow"
             THEN [m |-> called, status |-> "rejected", err |-> InitError(inst)]
             ELSE [m |-> [called EXCEPT !.pending = @ \cup {[r |-> r, key |-> key,
                                                            inst |-> inst, by |-> t]}],
                   status |-> "awaiting"]

\* preloader.ts 97: level.map((k) => callOnInit(k)), each up to its await.
RECURSIVE StartLevel(_, _, _, _, _)
StartLevel(m, t, r, level, rejected) ==
    IF level = <<>> THEN [m |-> m, rejected |-> rejected]
    ELSE LET c == callOnInit(m, t, r, Head(level))
         IN  StartLevel(c.m, t, r, Tail(level),
                        IF c.status = "rejected"
                        THEN rejected \cup {[key |-> Head(level), err |-> c.err]}
                        ELSE rejected)

\* preloader.ts 98-100: the rejections of a settled level, in the level's order.
LevelErrors(level, rejected) ==
    LET bad == SelectSeq(level, LAMBDA k : \E x \in rejected : x.key = k)
    IN  [i \in 1..Len(bad) |-> (CHOOSE x \in rejected : x.key = bad[i]).err]

\* The hooks that callOnInit has called, among the events of a call.
HookCalls(log) == SelectSeq(log, LAMBDA ev : ev.e = "init" /\ ev.chain = <<>>)

\* preloader.ts 96-97: the first level is started. (called is history: the
\* hooks this preload has called so far.)
PreloadLevelStarted(t, r, keys, levels, st) ==
    /\ Commit(st.m)
    /\ tasks' = [tasks EXCEPT ![t] =
          [op |-> "preload", r |-> r, keys |-> keys, level |-> Head(levels),
           rejected |-> st.rejected, levels |-> Tail(levels), done |-> <<>>,
           errors |-> <<>>, called |-> HookCalls(st.m.log)]]
    /\ last' = [op |-> "preloadStart", r |-> r, arg |-> keys, out |-> Ok(t),
                log |-> st.m.log]

\* preloader.ts 94-109: the levels are known.
PreloadLevels(t, r, keys, m, levels) ==
    IF levels.kind # "ok"
    THEN /\ Commit(m)
         /\ last' = [op |-> "preload", r |-> r, arg |-> keys, out |-> levels,
                     log |-> m.log]
         /\ UNCHANGED tasks
    ELSE IF levels.val = <<>>
    THEN /\ Commit(m)
         /\ last' = [op |-> "preload", r |-> r, arg |-> keys, out |-> Ok(0),
                     log |-> m.log]
         /\ UNCHANGED tasks
    ELSE PreloadLevelStarted(t, r, keys, levels.val,
                             StartLevel(m, t, r, Head(levels.val), {}))

\* preloader.ts 81-94: the keys to initialize and their levels.
PreloadCollected(t, r, keys, m, allKeys) ==
    PreloadLevels(t, r, keys, m, topologicalLevels(m.depGraph[r], allKeys))

\* preloader.ts 71-94: the resolve loop is over (res); m is the state with
\* deferOnInit switched off again.
PreloadResolved(t, r, keys, toResolve, cacheKeysBefore, res, m) ==
    IF res.out.kind # "ok"
    THEN \* the catch block evicts what the call cached and rethrows
         /\ Commit([m EXCEPT !.cache[r] =
                       SelectSeq(@, LAMBDA e : e.key \in cacheKeysBefore)])
         /\ last' = [op |-> "preload", r |-> r, arg |-> keys, out |-> res.out,
                     log |-> m.log]
         /\ UNCHANGED tasks
    ELSE PreloadCollected(t, r, keys, m, collectAll(m.depGraph[r], toResolve, <<>>))

\* preloader.ts 66-79: the resolve loop, run with deferOnInit switched on.
PreloadResolve(t, r, keys, toResolve, res) ==
    PreloadResolved(t, r, keys, toResolve, CacheKeys(cache[r]), res,
                    [res.m EXCEPT !.defer[r] = FALSE])

\* preloader.ts 62-97: preload() up to its first await.
PreloadStart(t, r, keys) ==
    /\ r \in Live
    /\ "preload" \in prog.uses
    /\ Free(t)
    /\ PreloadResolve(t, r, keys,
                      IF Len(keys) > 0 THEN keys ELSE FactoryKeys(factories[r]),
                      resolveAll([Mem EXCEPT !.defer[r] = TRUE], r,
                                 IF Len(keys) > 0 THEN keys ELSE FactoryKeys(factories[r])))
    /\ UNCHANGED <<nres, factories, parent, plan, prog>>

\* An onInit awaited by callOnInit settles: resolver.ts 177-179.
PreloadInitSettles(p) ==
    /\ p \in pending
    /\ p.by # 0
    /\ pending' = pending \ {p}
    /\ IF p.inst.onInit = "asyncFail"
       THEN /\ tasks' = [tasks EXCEPT ![p.by].rejected =
                            @ \cup {[key |-> p.key, err |-> InitError(p.inst)]}]
            /\ UNCHANGED initCalled
       ELSE /\ initCalled' = [initCalled EXCEPT ![p.r] = @ \cup {p.key}]
            /\ UNCHANGED tasks
    /\ last' = [op |-> "initSettled", r |-> p.r, arg |-> p.key, out |-> Ok(p.by),
                log |-> <<>>]
    /\ UNCHANGED <<nres, factories, parent, cache, depGraph, warnings, resolving,
                   deferOnInit, plan, prog, served, inits>>

\* (variant) preload() ends with the failures of the first level that has any
PreloadAdvanceFailFast(t) ==
    /\ tasks[t].op = "preload"
    /\ \A p \in pending : p.by # t
    /\ LET tk == tasks[t]
           errs == tk.errors \o LevelErrors(tk.level, tk.rejected)
       IN  IF tk.levels = <<>> \/ errs # <<>>
           THEN /\ tasks' = [tasks EXCEPT ![t] = Idle]
                /\ last' = [op |-> "preload", r |-> tk.r, arg |-> tk.keys,
                            out |-> Settle(errs), log |-> <<>>]
                /\ UNCHANGED <<cache, initCalled, depGraph, warnings, resolving,
                               deferOnInit, pending, served, inits>>
           ELSE LET st == StartLevel(Mem, t, tk.r, Head(tk.levels), {})
                IN  /\ Commit(st.m)
                    /\ tasks' = [tasks EXCEPT ![t] =
                          [tk EXCEPT !.level = Head(tk.levels), !.rejected = st.rejected,
                                     !.levels = Tail(tk.levels),
                                     !.done = Append(@, tk.level), !.errors = errs,
                                     !.called = @ \o HookCalls(st.m.log)]]
                    /\ last' = [op |-> "preloadLevel", r |-> tk.r, arg |-> tk.keys,
                                out |-> Ok(t), log |-> st.m.log]
    /\ UNCHANGED <<nres, factories, parent, plan, prog>>

\* (variant) the loop starts the next level without waiting for the level
\* it has started
PreloadAdvanceUnawaited(t) ==
    /\ tasks[t].op = "preload"
    /\ tasks[t].levels # <<>> \/ \A p \in pending : p.by # t
    /\ LET tk == tasks[t]
           errs == tk.errors \o LevelErrors(tk.level, tk.rejected)
       IN  IF tk.levels = <<>>
           THEN /\ tasks' = [tasks EXCEPT ![t] = Idle]
                /\ last' = [op |-> "preload", r |-> tk.r, arg |-> tk.keys,
                            out |-> Settle(errs), log |-> <<>>]
                /\ UNCHANGED <<cache, initCalled, depGraph, warnings, resolving,
                               deferOnInit, pending, served, inits>>
           ELSE LET st == StartLevel(Mem, t, tk.r, Head(tk.levels), {})
                IN  /\ Commit(st.m)
                    /\ tasks' = [tasks EXCEPT ![t] =
                          [tk EXCEPT !.level = Head(tk.levels), !.rejected = st.rejected,
                                     !.levels = Tail(tk.levels),
                                     !.done = Append(@, tk.level), !.errors = errs,
                                     !.called = @ \o HookCalls(st.m.log)]]
                    /\ last' = [op |-> "preloadLevel", r |-> tk.r, arg |-> tk.keys,
                                out |-> Ok(t), log |-> st.m.log]
    /\ UNCHANGED <<nres, factories, parent, plan, prog>>

\* preloader.ts 96-108: Promise.allSettled of the level has settled; the
\* loop goes on to the next level, or preload() ends.
PreloadAdvance(t) ==
    /\ tasks[t].op = "preload"
    /\ \A p \in pending : p.by # t
    /\ LET tk == tasks[t]
           errs == tk.errors \o LevelErrors(tk.level, tk.rejected)
       IN  IF tk.levels = <<>>
           THEN /\ tasks' = [tasks EXCEPT ![t] = Idle]
                /\ last' = [op |-> "preload", r |-> tk.r, arg |-> tk.keys,
                            out |-> Settle(errs), log |-> <<>>]
                /\ UNCHANGED <<cache, initCalled, depGraph, warnings, resolving,
                               deferOnInit, pending, served, inits>>
           ELSE LET st == StartLevel(Mem, t, tk.r, Head(tk.levels), {})
                IN  /\ Commit(st.m)
                    /\ tasks' = [tasks EXCEPT ![t] =
                          [tk EXCEPT !.level = Head(tk.levels), !.rejected = st.rejected,
                                     !.levels = Tail(tk.levels),
                                     !.done = Append(@, tk.level), !.errors = errs,
                                     !.called = @ \o HookCalls(st.m.log)]]
                    /\ last' = [op |-> "preloadLevel", r |-> tk.r, arg |-> tk.keys,
                                out |-> Ok(t), log |-> st.m.log]
    /\ UNCHANGED <<nres, factories, parent, plan, prog>>

Next ==
    \/ \E r \in Resolvers, k \in Keys : Resolve(r, k)
    \/ \E r \in Resolvers, ks \in SUBSET Keys : Reset(r, ks)
    \/ \E r \in Resolvers : plan # <<>> /\ Scope(r, Head(plan).extra)
    \/ \E r \in Resolvers : plan # <<>> /\ Extend(r, Head(plan).extra)
    \/ \E p \in pending : LazyInitSettles(p)
    \/ \E t \in Tasks, r \in Resolvers : DisposeStart(t, r)
    \/ \E t \in Tasks : DisposeStep(t)
    \/ \E t \in Tasks, r \in Resolvers, ks \in {<<>>} \cup {<<k>> : k \in Keys} :
          PreloadStart(t, r, ks)
    \/ \E p \in pending : PreloadInitSettles(p)
    \/ \E t \in Tasks : PreloadAdvance(t)

Spec == Init /\ [][Next]_vars

\* ================================================================== claims
Singleton(r, k) ==
    HasFactory(factories[r], k) /\ ~isTransient(GetFactory(factories[r], k))
Events(log, kinds, r, k) ==
    {i \in 1..Len(log) : log[i].e \in kinds /\ log[i].r = r /\ log[i].key = k}

\* C1 (as stated): once resolve(k) has succeeded on a resolver for a singleton
\* key k, every later resolve(k) returns that same value and k's factory is
\* not run again, until reset(k), reset() or dispose() of that resolver.
C1_OnceUntilReset ==
    \A i \in 1..Len(last.log) :
        LET ev == last.log[i]
        IN  (/\ ev.e \in {"run", "ret"}
             /\ Singleton(ev.r, ev.key)
             /\ ev.key \in DOMAIN served[ev.r])
            => ev.inst = served[ev.r][ev.key]

\* C1 (amended): while a singleton key k has a cache entry, no call runs k's
\* factory and every resolve(k) returns the cached value; an entry that a
\* call found in the cache is removed only by reset or dispose of that
\* resolver (a failed preload evicts only the entries it created itself).
C1_CachedIsServed ==
    [][\A r \in Resolvers, k \in Keys :
          (Singleton(r, k) /\ CacheHas(cache[r], k)) =>
              /\ Events(last'.log, {"run"}, r, k) = {}
              /\ \A i \in Events(last'.log, {"ret"}, r, k) :
                     last'.log[i].inst = CacheGet(cache[r], k)
              /\ \/ /\ CacheHas(cache'[r], k)
                    /\ CacheGet(cache'[r], k) = CacheGet(cache[r], k)
                 \/ last'.op \in {"reset", "dispose"} /\ last'.r = r]_vars

\* A resolve of a cached singleton has returned the cached value.
C1_Witness ==
    /\ last.op = "resolve" /\ last.out.kind = "ok"
    /\ Singleton(last.r, last.arg)
    /\ Events(last.log, {"run"}, last.r, last.arg) = {}
    /\ Events(last.log, {"ret"}, last.r, last.arg) # {}
    /\ CacheGet(cache[last.r], last.arg) = last.out.val

\* C2: every resolve of a transient key, top-level or made by another
\* factory, returns an object that this very resolve made by running the
\* key's factory; no two resolves return the same object and none returns a
\* cache entry, also when the cache holds an entry under that key.
TransientAt(r, k) ==
    HasFactory(factories[r], k) /\ GetFactory(factories[r], k).transient
C2_TransientRunsAnew ==
    \A i \in 1..Len(last.log) :
        LET ev == last.log[i]
        IN  (ev.e = "ret" /\ TransientAt(ev.r, ev.key)) =>
                /\ \E j \in 1..(i - 1) :
                       /\ last.log[j].e = "run"
                       /\ last.log[j].r = ev.r /\ last.log[j].key = ev.key
                       /\ last.log[j].inst = ev.inst
                       /\ last.log[j].inst.fid = GetFactory(factories[ev.r], ev.key).fid
                /\ \A j \in 1..Len(last.log) :
                       (j # i /\ last.log[j].e = "ret") => last.log[j].inst # ev.inst
                /\ \A q \in Live : \A c \in 1..Len(cache[q]) :
                       cache[q][c].inst # ev.inst

\* A transient key was resolved while the cache held an entry under it, and a
\* transient key was resolved twice as a dependency within one call.
C2_Witness ==
    /\ last.op = "resolve" /\ last.out.kind = "ok"
    /\ TransientAt(last.r, last.arg)
    /\ CacheHas(cache[last.r], last.arg)
    /\ \E k \in Keys :
           /\ TransientAt(last.r, k)
           /\ Cardinality(Events(last.log, {"ret"}, last.r, k)) >= 2

\* The keys a factory of r reads, and the keys reachable from a set of keys
\* through the factories of r.
DepSet(r, k) ==
    IF HasFactory(factories[r], k) THEN SeqToSet(GetFactory(factories[r], k).deps)
    ELSE {}
RECURSIVE Closure(_, _)
Closure(r, S) ==
    LET N == S \cup UNION {DepSet(r, x) : x \in S}
    IN  IF N = S THEN S ELSE Closure(r, N)
OnCycle(r, x) == x \in Closure(r, DepSet(r, x))
\* k leads into a cycle among r's own factories, and nothing on the way is
\* missing from r's registry or fails by itself.
ReachesCycle(r, k) ==
    /\ r \in Live
    /\ Closure(r, {k}) \subseteq SeqToSet(FactoryKeys(factories[r]))
    /\ \A x \in Closure(r, {k}) : GetFactory(factories[r], x).ret = "ok"
    /\ \E x \in Closure(r, {k}) : OnCycle(r, x)
\* The reported chain followed by the offending key ends with a closed path
\* of dependency edges of one resolver, from the key back to the key.
ListsCycle(err) ==
    /\ \E p \in 1..Len(err.chain) : err.chain[p] = err.key
    /\ LET p == CHOOSE q \in 1..Len(err.chain) :
                    /\ err.chain[q] = err.key
                    /\ \A q2 \in (q + 1)..Len(err.chain) : err.chain[q2] # err.key
           cyc == Append(SubSeq(err.chain, p, Len(err.chain)), err.key)
       IN  \E r \in Live : \A j \in 1..(Len(cyc) - 1) : cyc[j + 1] \in DepSet(r, cyc[j])

\* Every cache entry of r was made by the factory r has for its key.
CacheIsOwn(r) ==
    \A i \in 1..Len(cache[r]) :
        /\ HasFactory(factories[r], cache[r][i].key)
        /\ cache[r][i].inst.fid = GetFactory(factories[r], cache[r][i].key).fid

RECURSIVE Owner(_, _)
Owner(r, k) ==
    IF r = 0 THEN 0
    ELSE IF HasFactory(factories[r], k) THEN r
    ELSE Owner(parent[r], k)

\* C4: when a preload starts the initialization hooks of a layer, no
\* initialization hook of a key of an earlier layer is still running.
C4_LayerAfterEarlierLayers ==
    (last.op = "preloadLevel" /\ \E i \in 1..Len(last.log) : last.log[i].e = "init")
        => LET tk == tasks[last.out.val]
           IN  \A p \in pending :
                   ~(p.key \in Flatten(tk.done) /\ p.r = Owner(tk.r, p.key))

\* C5: between two resets or disposes of a key on a resolver, the key's
\* initialization hook is invoked at most once.
C5_InitAtMostOnce ==
    \A r \in Live : \A k \in DOMAIN inits[r] : inits[r][k] <= 1

\* The entries of a cache snapshot that have a teardown hook, last cached
\* first (the cache keeps its keys in the order in which they were first set).
Hooked(snap) == SelectSeq(Reverse(snap), LAMBDA e : e.inst.onDestroy # "none")
IsPrefix(s, t) == Len(s) <= Len(t) /\ \A i \in 1..Len(s) : s[i] = t[i]
Torn(log) == [i \in 1..Len(log) |-> [key |-> log[i].key, inst |-> log[i].inst]]

\* C6: the teardown hooks that dispose() has invoked so far are the first of
\* the cached instances with a hook, taken in the reverse of the order in
\* which they were cached; a finished dispose() has invoked all of them and
\* nothing else; and while dispose() waits, it waits for the hook it invoked
\* last, every hook after it being still to come.
C6_ReverseResolutionOrder ==
    /\ last.op \in {"disposeStart", "disposeStep", "dispose"} =>
           /\ IsPrefix(Torn(last.log), Hooked(last.arg))
           /\ last.op = "dispose" => Torn(last.log) = Hooked(last.arg)
    /\ \A t \in Tasks : tasks[t].op = "dispose" =>
           LET tk == tasks[t]
           IN  /\ tk.torn # <<>>
               /\ IsPrefix(Torn(tk.torn), Hooked(tk.snap))
               /\ Torn(tk.torn)[Len(tk.torn)] = Head(tk.rest)
               /\ Len(tk.torn) + Len(Hooked(Tail(tk.rest))) = Len(Hooked(tk.snap))

\* A dispose() has torn down three instances in an order that is neither the
\* registration order nor its reverse, and a registered key was never cached.
C6_Witness ==
    /\ last.op = "dispose" /\ Len(last.log) >= 3
    /\ LET torn == [i \in 1..Len(last.log) |-> last.log[i].key]
           reg == SelectSeq(FactoryKeys(factories[last.r]),
                            LAMBDA k : k \in SeqToSet(torn))
       IN  torn # reg /\ torn # Reverse(reg)
    /\ \E k \in SeqToSet(FactoryKeys(factories[last.r])) : k \notin CacheKeys(last.arg)

\* The hooks of a log that failed, as the errors they failed with.
Failures(log) ==
    LET bad == SelectSeq(log, LAMBDA ev : ev.inst.onDestroy \in {"throw", "fail"})
    IN  [i \in 1..Len(bad) |-> DestroyError(bad[i].inst)]

\* C7: a finished dispose() has invoked every teardown hook of the cached
\* instances, whichever of them failed, has cleared the resolver's state, and
\* ends normally when no hook failed, with the failure when one hook failed
\* and with one aggregate of all failures when several failed; until then the
\* cache is untouched and nothing is reported.
C7_AllTornThenCleared ==
    [][/\ last'.op = "dispose" =>
              /\ Len(last'.log) = Len(Hooked(last'.arg))
              /\ cache'[last'.r] = <<>> /\ initCalled'[last'.r] = {}
              /\ depGraph'[last'.r] = <<>> /\ warnings'[last'.r] = <<>>
              /\ LET errs == Failures(last'.log)
                 IN  /\ Len(errs) = 0 => last'.out = Ok(0)
                     /\ Len(errs) = 1 => last'.out = [kind |-> "error", val |-> errs[1]]
                     /\ Len(errs) >= 2 =>
                            last'.out = [kind |-> "AggregateError", errors |-> errs]
       /\ last'.op \in {"disposeStart", "disposeStep"} =>
              /\ cache' = cache /\ initCalled' = initCalled
              /\ depGraph' = depGraph /\ warnings' = warnings
              /\ \E t \in Tasks : tasks'[t].op = "dispose" /\ tasks'[t].r = last'.r]_vars

\* A dispose() in which two hooks failed, the first of them before another
\* hook was invoked, has ended.
C7_Witness ==
    /\ last.op = "dispose" /\ last.out.kind = "AggregateError"
    /\ Len(last.log) >= 3
    /\ last.log[1].inst.onDestroy \in {"throw", "fail"}
    /\ cache[last.r] = <<>>

\* C8: a scope() or extend() step changes nothing of the resolvers that
\* exist (registry, cache, dependency graph, warnings, init-completed set),
\* no step ever changes the registry of an existing resolver, and resolve of a
\* key that neither the resolver nor any of its ancestors registers fails with
\* NotFound, whatever the containers derived from it have registered or cached.
C8_SourceUnchanged ==
    [][/\ \A r \in Live : factories'[r] = factories[r] /\ parent'[r] = parent[r]
       /\ last'.op \in {"scope", "extend"} =>
              \A r \in Live :
                  /\ cache'[r] = cache[r] /\ depGraph'[r] = depGraph[r]
                  /\ warnings'[r] = warnings[r] /\ initCalled'[r] = initCalled[r]
       /\ (last'.op = "resolve" /\ Owner(last'.r, last'.arg) = 0) =>
              /\ last'.out.kind = "NotFound"
              /\ cache' = cache]_vars

\* A key that a derived container registers and has resolved was requested
\* from the source, which has resolved keys of its own, and was not found.
C8_Witness ==
    /\ last.op = "resolve" /\ last.out.kind = "NotFound"
    /\ cache[last.r] # <<>>
    /\ \E q \in Live : q # last.r /\ CacheHas(cache[q], last.arg)

\* q is r or an ancestor of r
RECURSIVE InChain(_, _)
InChain(q, r) ==
    IF r = 0 THEN FALSE
    ELSE IF q = r THEN TRUE
    ELSE InChain(q, parent[r])
\* k is registered by r and by another resolver above or below r
Shadowing(r, k) ==
    /\ HasFactory(factories[r], k)
    /\ \E q \in Live \ {r} :
           HasFactory(factories[q], k) /\ (InChain(q, r) \/ InChain(r, q))

\* C9: in a chain of scopes in which several resolvers register k, a
\* successful resolve of k on one of them returns the product of that
\* resolver's own factory, a singleton being cached in its own cache, and
\* leaves the entry for k of every other resolver as it was; every cache entry
\* for k in the chain is the product of the factory of the resolver that
\* holds it.
C9_OverrideIsLocal ==
    [][(/\ last'.op = "resolve" /\ last'.out.kind = "ok"
        /\ last'.r \in Live /\ Shadowing(last'.r, last'.arg))
       => LET r == last'.r
              k == last'.arg
          IN  /\ last'.out.val.fid = GetFactory(factories[r], k).fid
              /\ GetFactory(factories[r], k).transient
                 \/ (CacheHas(cache'[r], k) /\ CacheGet(cache'[r], k) = last'.out.val)
              /\ \A q \in Live \ {r} :
                     /\ CacheHas(cache'[q], k) <=> CacheHas(cache[q], k)
                     /\ CacheHas(cache[q], k) =>
                            CacheGet(cache'[q], k) = CacheGet(cache[q], k)
              /\ \A q \in Live : (Shadowing(q, k) /\ CacheHas(cache'[q], k)) =>
                     CacheGet(cache'[q], k).fid = GetFactory(factories[q], k).fid]_vars

\* A grandchild has resolved a key that it, its parent and the root register,
\* while its parent and the root held their own values for the key.
C9_Witness ==
    /\ last.op = "resolve" /\ last.out.kind = "ok"
    /\ last.r \in Live /\ parent[last.r] # 0 /\ parent[parent[last.r]] # 0
    /\ \A q \in {last.r, parent[last.r], parent[parent[last.r]]} :
           /\ HasFactory(factories[q], last.arg)
           /\ CacheHas(cache[q], last.arg)
           /\ CacheGet(cache[q], last.arg).fid = GetFactory(factories[q], last.arg).fid
    /\ Cardinality({CacheGet(cache[q], last.arg) :
                       q \in {last.r, parent[last.r], parent[parent[last.r]]}}) = 3

\* The keys of the chain of a factory run, without the run's own key.
Front(chain) == SubSeq(chain, 1, Len(chain) - 1)

\* C10: resolve of a key k on a scope r that does not register k, some
\* ancestor registering it, never fails with NotFound; when it succeeds it
\* returns the product of the factory of the nearest such ancestor o, which
\* for a singleton is o's cache entry, the one o held before if it held one
\* (the factory then not being run, and otherwise run once), r itself caching
\* nothing under k; and every factory run on the way has the chain of the run
\* that requested it, followed by its own key, and is run by the nearest
\* resolver that registers the key, seen from the requesting resolver.
C10_NearestAncestor ==
    [][/\ (/\ last'.op = "resolve" /\ last'.r \in Live
           /\ ~HasFactory(factories[last'.r], last'.arg)
           /\ Owner(last'.r, last'.arg) # 0)
          => LET r == last'.r
                 k == last'.arg
                 o == Owner(r, k)
             IN  /\ last'.out.kind # "NotFound" \/ last'.out.key # k
                 /\ last'.out.kind = "ok" =>
                        /\ last'.out.val.fid = GetFactory(factories[o], k).fid
                        /\ ~CacheHas(cache'[r], k)
                        /\ Singleton(o, k) =>
                               /\ CacheHas(cache'[o], k)
                               /\ CacheGet(cache'[o], k) = last'.out.val
                               /\ Cardinality(Events(last'.log, {"run"}, o, k)) =
                                      (IF CacheHas(cache[o], k) THEN 0 ELSE 1)
                               /\ CacheHas(cache[o], k) =>
                                      CacheGet(cache[o], k) = last'.out.val
       /\ last'.op = "resolve" =>
              \A i \in 1..Len(last'.log) :
                  LET ev == last'.log[i]
                  IN  ev.e = "run" =>
                          /\ ev.chain # <<>> /\ ev.chain[Len(ev.chain)] = ev.key
                          /\ IF Len(ev.chain) = 1 THEN ev.r = Owner(last'.r, ev.key)
                             ELSE \E j \in 1..(i - 1) :
                                      /\ last'.log[j].e = "run"
                                      /\ last'.log[j].chain = Front(ev.chain)
                                      /\ ev.r = Owner(last'.log[j].r, ev.key)]_vars

\* A grandchild has resolved a key that only the root registers and that the
\* root had cached, and a key of its parent whose factory reads a key of the
\* root.
C10_Witness ==
    /\ last.op = "resolve" /\ last.out.kind = "ok"
    /\ last.r \in Live /\ parent[last.r] # 0 /\ parent[parent[last.r]] # 0
    /\ Owner(last.r, last.arg) = parent[last.r]
    /\ \E i \in 1..Len(last.log) :
           /\ last.log[i].e = "ret" /\ last.log[i].r = parent[parent[last.r]]
           /\ Len(last.log[i].chain) >= 1
    /\ \E k \in Keys :
           /\ Owner(last.r, k) = parent[parent[last.r]]
           /\ CacheHas(cache[parent[parent[last.r]]], k)

\* r was made by extend(): it is not the root and has no parent.
Extension(r) == r \in Live /\ r > 1 /\ parent[r] = 0
\* The state of resolver q that a container call can read back.
Visible(q) == <<cache[q], depGraph[q], warnings[q], initCalled[q]>>

\* C11: extend() gives the new resolver the cache the source has at that
\* moment: right after it, resolve of every singleton key that the source has
\* cached and the new providers do not replace returns the source's instance
\* and runs no factory; and from then on every call made on a container (and
\* every hook it started) leaves the cache, dependency graph, warnings and
\* init-completed set of every resolver outside that container's own chain of
\* parents as they were, so the source and the extension never affect each
\* other.
C11_CopiedThenIndependent ==
    [][/\ \A src \in Live, new \in Resolvers :
              (last'.op = "extend" /\ last'.r = src /\ last'.out.val = new) =>
                  /\ cache'[new] = cache[src]
                  /\ \A k \in CacheKeys(cache[src]) :
                         (/\ Singleton(src, k)
                          /\ \A i \in 1..Len(last'.arg) : last'.arg[i].key # k)
                         => /\ resolve(Mem, new, k, <<>>, MaxDepth)'.out
                                  = Ok(CacheGet(cache[src], k))
                            /\ Events(resolve(Mem, new, k, <<>>, MaxDepth)'.m.log,
                                      {"run"}, new, k) = {}
       /\ last'.op \notin {"scope", "extend"} =>
              \A q \in Live : ~InChain(q, last'.r) => Visible(q)' = Visible(q)]_vars

\* An extension has resolved a key to the instance that the source holds,
\* without running a factory, after the two caches have grown apart.
C11_Witness ==
    /\ last.op = "resolve" /\ last.out.kind = "ok"
    /\ Extension(last.r)
    /\ CacheHas(cache[1], last.arg) /\ CacheGet(cache[1], last.arg) = last.out.val
    /\ Events(last.log, {"run"}, last.r, last.arg) = {}
    /\ CacheKeys(cache[last.r]) \ CacheKeys(cache[1]) # {}
    /\ CacheKeys(cache[1]) \ CacheKeys(cache[last.r]) # {}

\* C12: a successful resolve of a key on a container made by extend()
\* returns the product of the factory that the merged registry holds for the
\* key, which for a key of extra is extra's factory, whether or not the source
\* had resolved the key when extend() was called.
C12_ExtraWins ==
    (last.op = "resolve" /\ last.out.kind = "ok" /\ Extension(last.r)) =>
        last.out.val.fid = GetFactory(factories[last.r], last.arg).fid

\* The keys a reset(keys) call names: all keys when it is given none.
Gone(keys) == IF keys = {} THEN Keys ELSE keys
\* The keys a warning is about.
Subjects(w) == IF w.type = "async_init_error" THEN {w.key} ELSE {w.key, w.other}

\* C13 (as stated): reset removes the named keys (all keys when none is named)
\* from the cache, the init-completed set and the dependency graph of the
\* resolver, removes every warning about one of them, and never fails, leaving
\* the cache as it is when none of the keys is cached; and a successful resolve
\* of a singleton key that the resolver has no cache entry for (as after a
\* reset) runs the key's factory, returns an instance that did not exist
\* before, and calls the initialization hook of that instance.
C13_ResetThenFresh ==
    [][/\ last'.op = "reset" =>
              /\ last'.out = Ok(0)
              /\ CacheKeys(cache'[last'.r]) = CacheKeys(cache[last'.r]) \ Gone(last'.arg)
              /\ initCalled'[last'.r] = initCalled[last'.r] \ Gone(last'.arg)
              /\ DOMAIN depGraph'[last'.r] = DOMAIN depGraph[last'.r] \ Gone(last'.arg)
              /\ \A i \in 1..Len(warnings'[last'.r]) :
                     Subjects(warnings'[last'.r][i]) \cap Gone(last'.arg) = {}
              /\ (CacheKeys(cache[last'.r]) \cap Gone(last'.arg) = {}) => cache' = cache
       /\ (/\ last'.op = "resolve" /\ last'.out.kind = "ok"
           /\ last'.r \in Live /\ Singleton(last'.r, last'.arg)
           /\ ~CacheHas(cache[last'.r], last'.arg))
          => /\ \E i \in Events(last'.log, {"run"}, last'.r, last'.arg) :
                    last'.log[i].inst = last'.out.val
             /\ last'.out.val \notin Held(Mem)
             /\ hasOnInit(last'.out.val) =>
                    \E i \in Events(last'.log, {"init"}, last'.r, last'.arg) :
                        last'.log[i].inst = last'.out.val]_vars

\* C14: a reset step that names keys leaves, in its resolver, the cache
\* entries (their instances and their order), the init-completed markers and
\* the dependency-graph entries of all other keys as they were, among them the
\* entries of singletons whose factory read a reset key; and every reset step
\* leaves the cache, init-completed set, dependency graph and warnings of
\* every other resolver, its ancestors included, as they were, and changes no
\* registry.
C14_ResetTouchesNothingElse ==
    [][last'.op = "reset" =>
          /\ last'.arg # {} =>
                 /\ cache'[last'.r] =
                        SelectSeq(cache[last'.r], LAMBDA e : e.key \notin last'.arg)
                 /\ \A k \in Keys \ last'.arg :
                        /\ k \in initCalled'[last'.r] <=> k \in initCalled[last'.r]
                        /\ k \in DOMAIN depGraph'[last'.r] <=> k \in DOMAIN depGraph[last'.r]
                        /\ k \in DOMAIN depGraph[last'.r] =>
                               depGraph'[last'.r][k] = depGraph[last'.r][k]
          /\ \A q \in Resolvers \ {last'.r} : Visible(q)' = Visible(q)
          /\ factories' = factories /\ parent' = parent]_vars

\* A scoped container has reset a key that it and its parent have cached,
\* while it holds a singleton whose factory read that key.
C14_Witness ==
    /\ last.op = "reset" /\ last.arg # {}
    /\ last.r \in Live /\ parent[last.r] # 0
    /\ \E k \in last.arg : CacheHas(cache[parent[last.r]], k)
    /\ \E d \in CacheKeys(cache[last.r]) :
           /\ d \in DOMAIN depGraph[last.r]
           /\ SeqToSet(depGraph[last.r][d]) \cap last.arg # {}

\* The instances a resolver holds in its cache.
CacheInsts(c) == {c[i].inst : i \in 1..Len(c)}

\* C15 (as stated): a dispose() that completes, normally or with a failure,
\* leaves the resolver with an empty cache, init-completed set, dependency
\* graph and warning list, has invoked no teardown hook of an instance held
\* by an ancestor, and has left the state of every other resolver as it was;
\* and the container stays usable: a successful resolve of a singleton key
\* that the resolver has not resolved or cached since runs the key's factory
\* and calls the initialization hook of the instance it made.
C15_DisposedAndUsable ==
    [][/\ last'.op = "dispose" =>
              /\ \A q \in Live : q = last'.r => Visible(q)' = <<<<>>, <<>>, <<>>, {}>>
              /\ \A q \in Resolvers \ {last'.r} : Visible(q)' = Visible(q)
              /\ \A i \in 1..Len(last'.log) : \A q \in Live \ {last'.r} :
                     InChain(q, last'.r) =>
                         /\ last'.log[i].r # q
                         /\ last'.log[i].inst \notin CacheInsts(cache[q])
       /\ (/\ last'.op = "resolve" /\ last'.out.kind = "ok"
           /\ last'.r \in Live /\ Singleton(last'.r, last'.arg)
           /\ last'.arg \notin DOMAIN served[last'.r]
           /\ ~CacheHas(cache[last'.r], last'.arg))
          => /\ \E i \in Events(last'.log, {"run"}, last'.r, last'.arg) :
                    last'.log[i].inst = last'.out.val
             /\ hasOnInit(last'.out.val) =>
                    \E i \in Events(last'.log, {"init"}, last'.r, last'.arg) :
                        last'.log[i].inst = last'.out.val]_vars

\* The scope-mismatch warnings of a resolver about the pair (s, t).
Mismatches(ws, s, t) == {i \in 1..Len(ws) : ws[i] = ScopeMismatchWarning(s, t)}
\* t is registered as transient in r or, failing that, in its nearest ancestor.
TransientFor(r, t) == HasFactoryInChain(r, t) /\ getFactory(r, t).transient

\* C16: the warnings of a resolver hold at most one scope-mismatch warning
\* for a pair of keys, each of them for a singleton of the resolver and a key
\* that is transient for it (in its own registry or an ancestor's); and a
\* resolve that has run and cached a singleton whose factory read a transient
\* key, once or several times, leaves exactly one warning for the pair.
C16_OneWarningPerPair ==
    [][\A r \in Live :
          /\ \A i \in 1..Len(warnings'[r]) :
                 warnings'[r][i].type = "scope_mismatch" =>
                     /\ Singleton(r, warnings'[r][i].key)
                     /\ TransientFor(r, warnings'[r][i].other)
                     /\ Cardinality(Mismatches(warnings'[r], warnings'[r][i].key,
                                               warnings'[r][i].other)) = 1
          /\ \A i \in 1..Len(last'.log) :
                 (/\ last'.op = "resolve" /\ last'.log[i].e = "run" /\ last'.log[i].r = r
                  /\ Singleton(r, last'.log[i].key)
                  /\ CacheHas(cache'[r], last'.log[i].key)
                  /\ CacheGet(cache'[r], last'.log[i].key) = last'.log[i].inst)
                 => \A t \in DepSet(r, last'.log[i].key) :
                        TransientFor(r, t) =>
                            Cardinality(Mismatches(warnings'[r], last'.log[i].key, t)) = 1]_vars

\* The keys a preload call asks for, and the keys reachable from them through
\* the factories that answer for them, seen from resolver r.
Requested(r, keys) == IF keys = <<>> THEN SeqToSet(FactoryKeys(factories[r])) ELSE SeqToSet(keys)
RECURSIVE Reach(_, _)
Reach(r, S) ==
    LET N == S \cup UNION {IF Owner(r, x) = 0 THEN {} ELSE DepSet(Owner(r, x), x) : x \in S}
    IN  IF N = S THEN S ELSE Reach(r, N)

\* C17: when preload(keys) has completed successfully, every key that was
\* requested or is reachable from a requested key through the factories'
\* dependencies, and that is still cached by the resolver that answers for it,
\* holds an instance whose initialization hook, if it has one, has been called
\* and is not running any more.
C17_PreloadedIsInitialized ==
    (last.op = "preload" /\ last.out = Ok(0)) =>
        \A k \in Reach(last.r, Requested(last.r, last.arg)) :
            LET o == Owner(last.r, k)
            IN  (o # 0 /\ Singleton(o, k) /\ CacheHas(cache[o], k)
                 /\ hasOnInit(CacheGet(cache[o], k)))
                => /\ k \in initCalled[o]
                   /\ \A p \in pending : p.inst # CacheGet(cache[o], k)

\* The failures of a resolution.
ResolveErrors == {"NotFound", "Circular", "UndefinedReturn", "FactoryError"}

\* C18 (as stated): a preload whose resolution phase fails ends with that
\* failure, has called no initialization hook, has left deferred-init mode,
\* and leaves the cache of its resolver as it was before the call (the same
\* entries in the same order).
C18_FailedPreloadRestores ==
    [][(last'.op = "preload" /\ last'.out.kind \in ResolveErrors) =>
          /\ \A i \in 1..Len(last'.log) : last'.log[i].e # "init"
          /\ deferOnInit'[last'.r] = FALSE
          /\ cache'[last'.r] = cache[last'.r]
          /\ tasks' = tasks]_vars

\* The hooks among the calls that fail, as the errors they fail with.
FailedHooks(calls) ==
    LET bad == SelectSeq(calls, LAMBDA ev : ev.inst.onInit \in {"asyncFail", "syncThrow"})
    IN  [i \in 1..Len(bad) |-> InitError(bad[i].inst)]

Blamed(out) ==
    IF out.kind = "error" THEN {e.inst : e \in {x \in {out.val} : x.hook = "onInit"}}
    ELSE IF out.kind = "AggregateError"
    THEN {e.inst : e \in {x \in SeqToSet(out.errors) : x.hook = "onInit"}}
    ELSE IF out.kind = "FactoryError" /\ "hook" \in DOMAIN out.cause THEN {out.cause.inst}
    ELSE {}
\* The hooks started by a resolve outside preload that are still running.
Lazy(ps) == {p \in ps : p.by = 0}

OpenRuns(log) ==
    SelectSeq(log, LAMBDA ev :
        /\ ev.e = "run"
        /\ ~\E j \in 1..Len(log) : log[j].e = "ret" /\ log[j].inst = ev.inst)
\* The chain a nested resolve is given by the innermost open run (none: the
\* call itself made the resolve, with an empty chain).
OpenChain(log) ==
    IF OpenRuns(log) = <<>> THEN <<>> ELSE OpenRuns(log)[Len(OpenRuns(log))].chain
Innermost(log) == OpenRuns(log)[Len(OpenRuns(log))]

\* C21: a failure of a resolution reaches the caller as it was raised in the
\* innermost resolution that failed, whatever resolutions enclose it. A
\* factory that throws (or whose initialization hook throws) gives a
\* FactoryError with the key of that factory, the chain down to that key and
\* the thrown value as cause; UndefinedReturn carries the key and chain of
\* the factory that returned nothing; NotFound and Circular carry the
\* requested key and the chain of the factory that requested it.
C21_FailureAsRaised ==
    [][(last'.op \in {"resolve", "preload"} /\ last'.out.kind \in ResolveErrors) =>
          LET out == last'.out
              log == last'.log
          IN  /\ out.kind \in {"FactoryError", "UndefinedReturn"} =>
                     /\ OpenRuns(log) # <<>>
                     /\ out.key = Innermost(log).key
                     /\ out.chain = Innermost(log).chain
                     /\ out.chain[Len(out.chain)] = out.key
              /\ out.kind = "FactoryError" =>
                     LET f == GetFactory(factories[Innermost(log).r], out.key)
                     IN  \/ /\ f.ret = "throw"
                            /\ out.cause = [thrownBy |-> Innermost(log).inst.fid]
                         \/ /\ f.ret = "ok" /\ f.onInit = "syncThrow"
                            /\ out.cause = [hook |-> "onInit", inst |-> Innermost(log).inst]
              /\ out.kind = "UndefinedReturn" =>
                     GetFactory(factories[Innermost(log).r], out.key).ret = "undef"
              /\ out.kind \in {"NotFound", "Circular"} =>
                     /\ out.chain = OpenChain(log)
                     /\ IF OpenRuns(log) = <<>>
                        THEN last'.op = "resolve" => out.key = last'.arg
                        ELSE out.key \in DepSet(Innermost(log).r, Innermost(log).key)
              /\ \A i \in 1..Len(OpenRuns(log)) :
                     /\ IsPrefix(OpenRuns(log)[i].chain, OpenChain(log))
                     /\ last'.op = "resolve" => OpenRuns(log)[i].chain[1] = last'.arg]_vars

\* The failure of a throwing factory has gone through an enclosing
\* resolution: the call asked for one key and the FactoryError names the key
\* of the factory below it.
C21_Witness ==
    /\ last.op = "resolve" /\ last.out.kind = "FactoryError"
    /\ last.out.key # last.arg
    /\ Len(last.out.chain) >= 2
    /\ "thrownBy" \in DOMAIN last.out.cause

\* C22: a resolve of k made on a resolver fails with NotFound for k exactly
\* when neither the resolver nor any of its ancestors registers k, and every
\* NotFound that a resolve ends with lists the keys registered by the
\* resolver the call was made on and by all its ancestors.
C22_NotFoundListsScopeChain ==
    last.op = "resolve" =>
        /\ (last.out.kind = "NotFound" /\ last.out.key = last.arg /\ last.out.chain = <<>>)
               <=> ~HasFactoryInChain(last.r, last.arg)
        /\ last.out.kind = "NotFound" =>
               last.out.registered = getAllRegisteredKeys(last.r)

\* The container calls (and their continuations) that are made on a resolver.
CallsOn == {"resolve", "preload", "preloadStart", "preloadLevel", "reset",
            "dispose", "disposeStart", "disposeStep"}
\* The cache, dependency graph and warnings of a resolver.
Owned(q) == <<cache[q], depGraph[q], warnings[q]>>
\* The keys whose factory resolver q has run in a call.
RunAt(log, q) == {log[i].key : i \in {j \in 1..Len(log) : log[j].e = "run" /\ log[j].r = q}}

\* C24 (as stated): no call made on a scope changes the cache, the dependency
\* graph or the warnings of any of its ancestors.
C24_ChildNeverChangesParent ==
    [][\A c \in Live, q \in Live :
          (q # c /\ InChain(q, c) /\ last'.r = c /\ last'.op \in CallsOn)
              => Owned(q)' = Owned(q)]_vars

\* C24 (amended): a call made on a scope changes the state of an ancestor q
\* only where q itself ran one of its own factories for a key that was
\* delegated to it: q's cache keeps every entry it had and gains entries only
\* for keys whose factory q ran in this call, each the product of q's own
\* factory; q's dependency graph changes only at those keys; q's warnings are
\* only appended to, with scope mismatches of those keys. A call in which q
\* ran no factory, and every reset and dispose of the scope, leaves q's cache,
\* dependency graph and warnings as they were.
C24_ParentOnlyByDelegation ==
    [][\A c \in Live, q \in Live :
          (q # c /\ InChain(q, c) /\ last'.r = c /\ last'.op \in CallsOn)
              => /\ IsPrefix(cache[q], cache'[q])
                 /\ \A i \in (Len(cache[q]) + 1)..Len(cache'[q]) :
                        /\ cache'[q][i].key \in RunAt(last'.log, q)
                        /\ Singleton(q, cache'[q][i].key)
                        /\ cache'[q][i].inst.fid =
                               GetFactory(factories[q], cache'[q][i].key).fid
                 /\ \A k \in Keys \ RunAt(last'.log, q) :
                        /\ k \in DOMAIN depGraph'[q] <=> k \in DOMAIN depGraph[q]
                        /\ k \in DOMAIN depGraph[q] => depGraph'[q][k] = depGraph[q][k]
                 /\ IsPrefix(warnings[q], warnings'[q])
                 /\ \A i \in (Len(warnings[q]) + 1)..Len(warnings'[q]) :
                        /\ warnings'[q][i].type = "scope_mismatch"
                        /\ warnings'[q][i].key \in RunAt(last'.log, q)
                 /\ (RunAt(last'.log, q) = {}
                     \/ last'.op \in {"reset", "dispose", "disposeStart", "disposeStep"})
                        => Owned(q)' = Owned(q)]_vars

\* A scope has resolved a key of its own and, on the way, a key was
\* delegated to the root: the root has run its factory for it and holds the
\* product in its own cache.
C24_Witness ==
    /\ last.op = "resolve" /\ last.out.kind = "ok"
    /\ last.r \in Live /\ parent[last.r] # 0
    /\ HasFactory(factories[last.r], last.arg)
    /\ \E k \in RunAt(last.log, 1) :
           /\ last.r # 1
           /\ CacheHas(cache[1], k)
           /\ CacheGet(cache[1], k) \in LogInsts(last.log)

\* The dependency graph the resolvers walk: a node is a key together with
\* the resolver that answers for it, and the factory of a node reads its keys
\* through the resolver that runs it.
Node(r, k) == <<Owner(r, k), k>>
Succ(n) == {Node(n[1], d) : d \in DepSet(n[1], n[2])} \ ({0} \X Keys)
RECURSIVE Below(_)
Below(S) ==
    LET N == S \cup UNION {Succ(n) : n \in S}
    IN  IF N = S THEN S ELSE Below(N)
\* No path of the graph that starts at k, asked of r, comes back to a node
\* it has passed.
Acyclic(r, k) ==
    Owner(r, k) # 0 => \A n \in Below({Node(r, k)}) : n \notin Below(Succ(n))

\* C23: a resolve, or a preload, of keys from which the dependency graph has
\* no cycle never fails with Circular; and in a call that succeeds, however
\* many paths lead to a singleton key, its factory runs at most once (not at
\* all when it was cached), every path is handed the same instance, and that
\* instance is the one in the cache.
C23_AcyclicNeverCircular ==
    [][/\ (last'.op = "resolve" /\ last'.r \in Live /\ Acyclic(last'.r, last'.arg))
              => last'.out.kind # "Circular"
       /\ (/\ last'.op \in {"preload", "preloadStart"} /\ last'.r \in Live
           /\ \A k \in Requested(last'.r, last'.arg) : Acyclic(last'.r, k))
              => last'.out.kind # "Circular"
       /\ (last'.op = "resolve" /\ last'.out.kind = "ok") =>
              \A r \in Live, k \in Keys :
                  Singleton(r, k) =>
                      /\ Cardinality(Events(last'.log, {"run"}, r, k)) <=
                             (IF CacheHas(cache[r], k) THEN 0 ELSE 1)
                      /\ (~CacheHas(cache[r], k) /\ Events(last'.log, {"ret"}, r, k) # {})
                             => Events(last'.log, {"run"}, r, k) # {}
                      /\ \A i \in Events(last'.log, {"ret"}, r, k) :
                             /\ CacheHas(cache'[r], k)
                             /\ last'.log[i].inst = CacheGet(cache'[r], k)]_vars

\* The diamond has been resolved from its top: the factory of the shared
\* key ran once and its product was handed to both paths.
C23_Witness ==
    /\ last.op = "resolve" /\ last.out.kind = "ok"
    /\ \E k \in Keys \ {last.arg} :
           /\ Singleton(last.r, k)
           /\ Cardinality(Events(last.log, {"run"}, last.r, k)) = 1
           /\ \E i, j \in Events(last.log, {"ret"}, last.r, k) :
                  /\ i # j
                  /\ Len(last.log[i].chain) >= 2 /\ Len(last.log[j].chain) >= 2
                  /\ last.log[i].chain[2] # last.log[j].chain[2]
                  /\ last.log[i].inst = last.log[j].inst

\* The keys a call asked the resolver for itself, in the order of the asking:
\* a resolve made with an empty chain either returns a cache entry or runs the
\* factory with a chain of one key.
TopKeys(log) ==
    LET top == SelectSeq(log, LAMBDA ev : \/ ev.e = "ret" /\ ev.chain = <<>>
                                          \/ ev.e = "run" /\ Len(ev.chain) = 1)
    IN  [i \in 1..Len(top) |-> top[i].key]
\* The step is a preload() call running up to its first await (or to its end,
\* when it has nothing to await).
PreloadCalled ==
    \/ last'.op = "preloadStart"
    \/ last'.op = "preload" /\ tasks' = tasks

\* C25: preload() without keys asks the resolver for every key of its
\* registry, in registration order, and preload(k) for k only; when the
\* resolution succeeds every singleton of the registry that was not cached has
\* had its factory run once (and no cached one was run), and no factory
\* outside the requested keys and what they depend on is run; and when the
\* preload ends, the initialization hook of every requested key of the
\* registry whose objects have one has been called.
C25_PreloadAllMeansAll ==
    [][/\ (PreloadCalled /\ last'.r \in Live) =>
              LET r == last'.r
                  asked == IF last'.arg = <<>> THEN FactoryKeys(factories[r]) ELSE last'.arg
              IN  /\ IsPrefix(TopKeys(last'.log), asked)
                  /\ last'.out.kind \in {"ok", "error", "AggregateError"} =>
                         /\ TopKeys(last'.log) = asked
                         /\ last'.arg = <<>> =>
                                \A k \in SeqToSet(asked) :
                                    Singleton(r, k) =>
                                        /\ Cardinality(Events(last'.log, {"run"}, r, k)) =
                                               (IF CacheHas(cache[r], k) THEN 0 ELSE 1)
                                        /\ CacheHas(cache'[r], k)
                  /\ \A i \in 1..Len(last'.log) :
                         last'.log[i].e = "run" =>
                             last'.log[i].key \in Reach(r, SeqToSet(asked))
       /\ \A t \in Tasks :
              (tasks[t].op = "preload" /\ tasks'[t] = Idle /\ last'.op = "preload") =>
                  \A k \in Requested(tasks[t].r, tasks[t].keys) :
                      (/\ HasFactory(factories[tasks[t].r], k)
                       /\ GetFactory(factories[tasks[t].r], k).onInit # "none")
                      => \/ \E i \in 1..Len(tasks[t].called) :
                                tasks[t].called[i].key = k /\ tasks[t].called[i].r = tasks[t].r
                         \/ k \in initCalled[tasks[t].r]]_vars

\* C26: after every call the resolving set of every resolver is empty,
\* however the resolutions of the call ended; within a call no factory is
\* run for a key before every earlier run of the same key by the same
\* resolver has returned or failed (a run made after a failed one is not
\* nested in it: its chain does not extend the chain of the failed run); and a Circular failure always names a key whose
\* factory run is on the call stack at that moment, so a resolution that
\* failed earlier never causes one.
C26_ResolvingOnlyWhileActive ==
    [][/\ \A r \in Resolvers : resolving'[r] = {}
       /\ \A i, j \in 1..Len(last'.log) :
              (/\ j < i
               /\ last'.log[i].e = "run" /\ last'.log[j].e = "run"
               /\ last'.log[i].r = last'.log[j].r /\ last'.log[i].key = last'.log[j].key)
              => \/ \E n \in (j + 1)..(i - 1) :
                        last'.log[n].e = "ret" /\ last'.log[n].inst = last'.log[j].inst
                 \/ ~IsPrefix(last'.log[j].chain, last'.log[i].chain)
       /\ last'.out.kind = "Circular" =>
              \E i \in 1..Len(OpenRuns(last'.log)) :
                  /\ OpenRuns(last'.log)[i].key = last'.out.key
                  /\ IsPrefix(OpenRuns(last'.log)[i].chain, last'.out.chain)]_vars

\* A resolve that had entered two keys has failed, by a throwing factory, a
\* throwing initialization hook or a cycle, and every resolving set is empty.
C26_Witness ==
    /\ last.op = "resolve" /\ last.out.kind \in ResolveErrors
    /\ Len(OpenRuns(last.log)) >= 2
    /\ \A r \in Resolvers : resolving[r] = {}

\* C27: every key in the cache of a resolver is registered in that resolver
\* as a singleton.
C27_CacheOnlySingletons ==
    \A r \in Live : \A k \in CacheKeys(cache[r]) : Singleton(r, k)

\* C28: when a resolve of k fails, whatever the failure, k is not in the
\* cache of the resolver afterwards unless it was there before, and the
\* dependency-graph entry and the init marker of k are as they were before.
C28_FailedResolveLeavesNothing ==
    [][(last'.op = "resolve" /\ last'.r \in Live /\ last'.out.kind \in ResolveErrors) =>
          LET r == last'.r
              k == last'.arg
          IN  /\ CacheHas(cache'[r], k) => CacheHas(cache[r], k)
              /\ k \in DOMAIN depGraph'[r] <=> k \in DOMAIN depGraph[r]
              /\ k \in DOMAIN depGraph[r] => depGraph'[r][k] = depGraph[r][k]
              /\ k \in initCalled'[r] <=> k \in initCalled[r]]_vars

\* The keys that resolver r has resolved successfully by running their
\* factory in a call: the object of the run was handed back.
Succeeded(log, r) ==
    {log[i].key : i \in {j \in 1..Len(log) :
        /\ log[j].e = "run" /\ log[j].r = r
        /\ \E n \in (j + 1)..Len(log) : log[n].e = "ret" /\ log[n].inst = log[j].inst}}

\* C29: the dependency-graph entry of a key changes only in two ways: a
\* call in which the resolver resolved the key successfully by running its
\* factory sets it to the keys that factory read, in order and with
\* repetitions; reset of the key, reset() and dispose remove it. A failed
\* resolution of the key, and everything else, leaves it as it was.
C29_GraphIsLastSuccess ==
    [][\A r \in Live, k \in Keys :
          IF k \in Succeeded(last'.log, r)
          THEN /\ k \in DOMAIN depGraph'[r]
               /\ depGraph'[r][k] = GetFactory(factories[r], k).deps
          ELSE IF /\ last'.r = r
                  /\ \/ last'.op = "reset" /\ k \in Gone(last'.arg)
                     \/ last'.op = "dispose"
          THEN k \notin DOMAIN depGraph'[r]
          ELSE /\ k \in DOMAIN depGraph'[r] <=> k \in DOMAIN depGraph[r]
               /\ k \in DOMAIN depGraph[r] => depGraph'[r][k] = depGraph[r][k]]_vars

\* C30: a preload() calls no initialization hook while it resolves the
\* requested keys: none of the factory runs it makes, on the resolver it was
\* called on or on an ancestor, is followed by a call of the hook of the
\* object made; the hooks it calls are those of its layers, after the
\* resolution.
C30_NoHookWhileResolving ==
    [][PreloadCalled =>
          \A i \in 1..Len(last'.log) :
              last'.log[i].e = "init" =>
                  /\ last'.log[i].chain = <<>>
                  /\ \A j \in 1..Len(last'.log) :
                         last'.log[j].e \in {"run", "ret"} => j < i]_vars

\* The hook invocations that preload t made for the keys of a layer and that
\* are still running.
Running(ps, t, level) == {p \in ps : p.by = t /\ p.key \in SeqToSet(level)}

\* C31: the hooks of a layer run behind a barrier: the step of a preload
\* that starts a layer leaves the asynchronous hook of every cached member
\* that is not marked as initialized running, all of them started in that one
\* step before the preload waits; and the step that leaves a layer (for the next
\* layer or for the end of the preload) happens only when none of the hook
\* invocations the preload made for the layer is still running.
C31_LayerBarrier ==
    [][\A t \in Tasks :
          /\ (tasks'[t].op = "preload" /\ (tasks[t].op # "preload"
                                            \/ tasks'[t].done # tasks[t].done)) =>
                 \A k \in SeqToSet(tasks'[t].level) :
                     LET r == tasks'[t].r
                     IN  (/\ CacheHas(cache'[r], k) /\ k \notin initCalled'[r]
                          /\ CacheGet(cache'[r], k).onInit \in {"async", "asyncFail"})
                         => \E p \in pending' : p.r = r /\ p.key = k /\ p.by = t
          /\ (tasks[t].op = "preload" /\ (tasks'[t].op # "preload"
                                           \/ tasks'[t].done # tasks[t].done)) =>
                 Running(pending, t, tasks[t].level) = {}]_vars

\* A preload has gone on to a further layer after a layer in which it had
\* started two asynchronous hooks, one of which failed.
C31_Witness ==
    \E t \in Tasks :
        /\ tasks[t].op = "preload" /\ last.op = "preloadLevel" /\ last.out.val = t
        /\ \E i \in 1..Len(tasks[t].done) : \E x, y \in SeqToSet(tasks[t].called) :
               /\ x.key # y.key
               /\ {x.key, y.key} \subseteq SeqToSet(tasks[t].done[i])
               /\ x.inst.onInit = "async" /\ y.inst.onInit = "asyncFail"

\* ------------------------------------------------ topologicalLevels alone
\* The inputs of topologicalLevels: a dependency graph over three keys, each
\* with a list of at most MaxDeps dependencies (lists may repeat a key), and
\* an ordered key set.
MaxDeps == 2
TopoKeys == {"a", "b", "c"}
DepLists == UNION {[1..n -> TopoKeys] : n \in 0..MaxDeps}
KeySets == {ks \in UNION {[1..n -> TopoKeys] : n \in 0..Cardinality(TopoKeys)} :
               \A i, j \in 1..Len(ks) : ks[i] = ks[j] => i = j}

\* A resolver that holds a recorded dependency graph and nothing else.
InitTopo ==
    \E g \in [TopoKeys -> DepLists] :
        /\ nres = 1
        /\ factories = [r \in Resolvers |-> <<>>]
        /\ plan = <<>>
        /\ prog = [name |-> "levels", uses |-> {}, resets |-> {}]
        /\ parent = [r \in Resolvers |-> 0]
        /\ cache = [r \in Resolvers |-> <<>>]
        /\ initCalled = [r \in Resolvers |-> {}]
        /\ depGraph = [r \in Resolvers |-> IF r = 1 THEN g ELSE <<>>]
        /\ warnings = [r \in Resolvers |-> <<>>]
        /\ resolving = [r \in Resolvers |-> {}]
        /\ deferOnInit = [r \in Resolvers |-> FALSE]
        /\ pending = {}
        /\ tasks = [t \in Tasks |-> Idle]
        /\ last = [op |-> "create", r |-> 1, arg |-> <<>>, out |-> Ok(1), log |-> <<>>]
        /\ served = [r \in Resolvers |-> <<>>]
        /\ inits = [r \in Resolvers |-> <<>>]

\* preloader.ts 94: topologicalLevels(depGraph, allKeys), applied once to
\* each input.
Levels(keys) ==
    /\ last.op = "create"
    /\ last' = [op |-> "topologicalLevels", r |-> 1, arg |-> keys,
                out |-> topologicalLevels(depGraph[1], keys), log |-> <<>>]
    /\ UNCHANGED <<nres, factories, parent, cache, initCalled, depGraph, warnings,
                   resolving, deferOnInit, pending, tasks, plan, prog, served, inits>>

NextTopo == \E keys \in KeySets : Levels(keys)

SpecTopo == InitTopo /\ [][NextTopo]_vars

\* The dependencies of k inside the key set K.
InK(g, K, k) == SeqToSet(DepsOf(g, k)) \cap K
\* The keys of K reached from the keys S in at most n further steps.
RECURSIVE Descend(_, _, _, _)
Descend(g, K, S, n) ==
    IF n = 0 THEN S
    ELSE Descend(g, K, S \cup UNION {InK(g, K, k) : k \in S}, n - 1)
\* The graph restricted to K has a cycle.
CyclicIn(g, K) ==
    \E k \in K : k \in Descend(g, K, InK(g, K, k), Cardinality(K))
\* The index of the layer that holds k (0 when none does).
LayerOf(levels, k) ==
    IF k \in Flatten(levels)
    THEN CHOOSE i \in 1..Len(levels) : k \in SeqToSet(levels[i])
    ELSE 0

\* C32: topologicalLevels fails with IncompleteTopologicalSort exactly when
\* the graph restricted to the key set K has a cycle; otherwise it returns
\* layers without repetition whose keys are exactly K, the first layer
\* holding exactly the keys without dependencies inside K, every key of a
\* later layer having all its dependencies inside K in earlier layers and at
\* least one in the layer just before; repeated entries of a dependency list
\* and dependencies outside K change nothing.
C32_LayersOrIncomplete ==
    last.op = "topologicalLevels" =>
        LET g == depGraph[1]
            K == SeqToSet(last.arg)
            L == last.out.val
        IN  IF CyclicIn(g, K) THEN last.out.kind = "IncompleteTopologicalSort"
            ELSE /\ last.out.kind = "ok"
                 /\ Flatten(L) = K
                 /\ \A i, j \in 1..Len(L) : \A x \in 1..Len(L[i]), y \in 1..Len(L[j]) :
                        L[i][x] = L[j][y] => (i = j /\ x = y)
                 /\ \A i \in 1..Len(L) : L[i] # <<>>
                 /\ \A k \in K : (InK(g, K, k) = {}) <=> (LayerOf(L, k) = 1)
                 /\ \A k \in K : LayerOf(L, k) > 1 =>
                        /\ \A d \in InK(g, K, k) : LayerOf(L, d) < LayerOf(L, k)
                        /\ \E d \in InK(g, K, k) : LayerOf(L, d) = LayerOf(L, k) - 1

\* Two layers were returned for a key set whose graph has a dependency list
\* that names a key of K twice and a list that names a key outside K.
C32_Witness ==
    /\ last.op = "topologicalLevels" /\ last.out.kind = "ok"
    /\ Len(last.out.val) >= 2
    /\ \E k \in SeqToSet(last.arg) :
           \E i, j \in 1..Len(depGraph[1][k]) :
               i # j /\ depGraph[1][k][i] = depGraph[1][k][j]
                     /\ depGraph[1][k][i] \in SeqToSet(last.arg)
    /\ \E k \in SeqToSet(last.arg) :
           SeqToSet(depGraph[1][k]) \ SeqToSet(last.arg) # {}

\* C33: the dependency graph recorded by a resolver never has a cycle, and
\* no preload fails with IncompleteTopologicalSort.
C33_RecordedGraphAcyclic ==
    /\ \A r \in Live : ~CyclicIn(depGraph[r], DOMAIN depGraph[r])
    /\ last.out.kind # "IncompleteTopologicalSort"

\* C34: when an initialization hook that a resolve started settles after its
\* instance has left the cache of its resolver (by reset or dispose), the
\* warnings of that resolver stay as they are.
C34_LateFailureWritesNothing ==
    [][\A p \in Lazy(pending) \ pending' :
          (Singleton(p.r, p.key) /\ p.inst \notin CacheInsts(cache[p.r]))
              => warnings'[p.r] = warnings[p.r]]_vars

\* C35: a singleton key that is marked init-completed in a resolver is in
\* the cache of that resolver.
C35_MarkerOnlyWithEntry ==
    \A r \in Live : \A k \in initCalled[r] :
        Singleton(r, k) => CacheHas(cache[r], k)

\* C36: a dispose() that completes has invoked the teardown hook of every
\* instance with such a hook that it removes from the cache.
C36_ClearedMeansTornDown ==
    [][last'.op = "dispose" =>
          \A i \in 1..Len(cache[last'.r]) :
              cache[last'.r][i].inst.onDestroy # "none" =>
                  \E j \in 1..Len(last'.log) :
                      /\ last'.log[j].e = "destroy"
                      /\ last'.log[j].inst = cache[last'.r][i].inst]_vars

\* The position of an instance in a cache (0 when it is not there).
Pos(c, inst) ==
    IF inst \in CacheInsts(c) THEN CHOOSE i \in 1..Len(c) : c[i].inst = inst ELSE 0
\* The instances that the factory run logged at position a was handed by its
\* own resolver: the values returned to it, or to a factory running below
\* it, before it returned at position b.
Handed(log, a, b) ==
    {log[n].inst : n \in {x \in (a + 1)..(b - 1) :
                             /\ log[x].e = "ret" /\ log[x].r = log[a].r
                             /\ IsPrefix(log[a].chain, log[x].chain)}}

\* C37 (as stated): dispose() never invokes the teardown hook of a key before
\* the teardown hook of a key that depends on it.
C37_DependentsFirst ==
    last.op \in {"disposeStart", "disposeStep", "dispose"} =>
        \A i, j \in 1..Len(last.log) :
            i < j => last.log[i].key \notin
                         Closure(last.r, DepSet(last.r, last.log[j].key))

\* C37 (amended): dispose() tears the cached instances down in the reverse of
\* the order in which they entered the cache, and an instance enters the
\* cache after every instance of the same cache that its factory was handed
\* while it ran: the instances that stay cached keep their order, a returned
\* factory run finds the instances it was handed in front of its product, and
\* dispose() invokes the hook of an instance before the hook of every
\* instance cached in front of it.
C37_HandedInstancesLast ==
    [][/\ \A r \in Live : \A x, y \in CacheInsts(cache[r]) \cap CacheInsts(cache'[r]) :
              Pos(cache[r], x) < Pos(cache[r], y) => Pos(cache'[r], x) < Pos(cache'[r], y)
       /\ \A a, b \in 1..Len(last'.log) :
              (/\ a < b
               /\ last'.log[a].e = "run" /\ last'.log[b].e = "ret"
               /\ last'.log[a].inst = last'.log[b].inst
               /\ last'.log[a].inst \notin Handed(last'.log, a, b)
               /\ last'.log[a].inst \in CacheInsts(cache'[last'.log[a].r]))
              => \A h \in Handed(last'.log, a, b) \cap CacheInsts(cache'[last'.log[a].r]) :
                     Pos(cache'[last'.log[a].r], h)
                         < Pos(cache'[last'.log[a].r], last'.log[a].inst)
       /\ last'.op \in {"disposeStart", "disposeStep", "dispose"} =>
              \A i, j \in 1..Len(last'.log) :
                  i < j => Pos(last'.arg, last'.log[i].inst)
                               > Pos(last'.arg, last'.log[j].inst)]_vars

\* A dispose() has ended that tore down two instances, the first of them made
\* by a factory that reads the key of the second.
C37_Witness ==
    /\ last.op = "dispose"
    /\ \E i, j \in 1..Len(last.log) :
           /\ i < j
           /\ last.log[j].key \in DepSet(last.r, last.log[i].key)

\* C38: dispose() never invokes the teardown hook of an instance that
\* another container still holds in its cache (and would tear down again).
C38_TornDownByOneContainer ==
    [][last'.op \in {"disposeStart", "disposeStep", "dispose"} =>
          \A i \in 1..Len(last'.log) : \A q \in Live \ {last'.r} :
              last'.log[i].inst \notin CacheInsts(cache'[q])]_vars

\* C39: right after extend(extra), every key that resolves on the source,
\* and that reaches none of the keys of extra through the dependencies of the
\* factories, resolves on the new container.
C39_ExtensionResolvesWhatSourceDoes ==
    last.op = "extend" =>
        \A k \in Keys :
            (/\ Reach(last.r, {k}) \cap SeqToSet(FactoryKeys(last.arg)) = {}
             /\ resolve(Mem, last.r, k, <<>>, MaxDepth).out.kind = "ok")
                => resolve(Mem, last.out.val, k, <<>>, MaxDepth).out.kind = "ok"

\* C40: while no preload call is in progress, no resolver is in deferred-init
\* mode and the initialization hook of every cached singleton instance that
\* has one has been invoked (since the key was last reset or disposed); said
\* of the resolvers of built and scoped containers, an extension starting
\* with instances whose hooks its source has invoked.
C40_NoPreloadNothingDeferred ==
    (\A t \in Tasks : tasks[t].op # "preload") =>
        \A r \in Live :
            /\ ~deferOnInit[r]
            /\ ~Extension(r) =>
                   \A i \in 1..Len(cache[r]) :
                       (Singleton(r, cache[r][i].key) /\ hasOnInit(cache[r][i].inst))
                           => cache[r][i].key \in DOMAIN inits[r]

====
